---- MODULE Spec2Model ----
(***************************************************************************)
(* Model of the PISA batch-analysis pipeline of binder_designer:           *)
(*   - the batch runners src/pisa_final.py and src/pisa.py (worker pool,   *)
(*     per-job analyse / emit / check / erase / derive cycle, contacts.csv)*)
(*   - the metric derivation from one interface report                     *)
(*   - the ranking stage src/rank_pisa_final.py                            *)
(*                                                                         *)
(* Numbers read from a report are modelled as integers in units of 1e-4    *)
(* (areas, energies, p-values); sequence numbers are plain integers.  A    *)
(* text node of the report is a record [k, v]: k = "num" (parsable text    *)
(* with value v), k = "absent" (element missing or empty) or k = "bad"     *)
(* (text that int()/float() rejects).                                      *)
(***************************************************************************)
EXTENDS Integers, Sequences, FiniteSets, TLC

\* ------------------------------------------------------------------ bounds
NumFiles == 3
MaxWorkersBound == 2
MaxIfaces == 3
MaxRows == 3
MaxBonds == 2
MaxSaltBridges == 1
MaxResidues == 2
MaxNameLen == 4
MaxBinders == 2

\* ------------------------------------------------------- generic helpers
Absent == [k |-> "absent", v |-> 0]
Bad == [k |-> "bad", v |-> 0]
Txt(n) == [k |-> "num", v |-> n]

\* optional values of an output row: blank cell or a number
Blank == [b |-> TRUE, v |-> 0]
Val(n) == [b |-> FALSE, v |-> n]

Range(s) == {s[i] : i \in 1..Len(s)}

RECURSIVE Concat(_)
Concat(ss) == IF ss = <<>> THEN <<>> ELSE Head(ss) \o Concat(Tail(ss))

RECURSIVE SumSeq(_)
SumSeq(s) == IF s = <<>> THEN 0 ELSE Head(s) + SumSeq(Tail(s))

\* round(n / d) for d > 0, halves away from zero (the modelled inputs hold
\* no exact half, so the rounding mode of the formatter is not observable)
RoundDiv(n, d) == IF n >= 0 THEN (2 * n + d) \div (2 * d)
                  ELSE -((2 * (-n) + d) \div (2 * d))

\* f"{x:.2f}" and f"{x:.3f}" of a value held in 1e-4 units: the result is
\* the number of hundredths, resp. thousandths, that is printed
Fmt2(x) == RoundDiv(x, 100)
Fmt3(x) == RoundDiv(x, 10)

\* --------------------------------------------------- residue classification
HYDROPHOBIC == {"ALA", "VAL", "LEU", "ILE", "MET", "PHE", "TRP", "PRO", "GLY"}
POLAR_UNCHARGED == {"SER", "THR", "ASN", "GLN", "TYR", "CYS"}
CHARGED == {"ASP", "GLU", "LYS", "ARG", "HIS"}

\* res_name.strip().upper() on the residue names that occur in the model
StripUpper(name) ==
    CASE name = "ala" -> "ALA"
      [] name = " SER " -> "SER"
      [] OTHER -> name

\* ----------------------------------------------------------- text parsing
\* int(findtext(tag, default="0") or "0") / float(... or "0") of pisa_final:
\* a missing or empty element reads as 0, unparsable text raises ValueError
LenientNum(t) ==
    CASE t.k = "num" -> [ok |-> TRUE, v |-> t.v]
      [] t.k = "absent" -> [ok |-> TRUE, v |-> 0]
      [] OTHER -> [ok |-> FALSE, v |-> 0]

\* int(elem.find(tag).text) / float(elem.find(tag).text) of pisa.py: a
\* missing element raises AttributeError, empty text TypeError, unparsable
\* text ValueError
StrictNum(t) ==
    IF t.k = "num" THEN [ok |-> TRUE, v |-> t.v] ELSE [ok |-> FALSE, v |-> 0]

\* the conversion used by the parser: strict = TRUE is parse_xml of pisa.py
ReadNum(t, strict) == IF strict THEN StrictNum(t) ELSE LenientNum(t)

\* _float_or_none: None for missing, empty or unparsable text; never raises
FloatOrNone(t) == IF t.k = "num" THEN Val(t.v) ELSE Blank

TruncDiv(n, d) ==
    IF (n >= 0) = (d > 0) THEN (IF n >= 0 THEN n ELSE -n) \div (IF d > 0 THEN d ELSE -d)
    ELSE -((IF n >= 0 THEN n ELSE -n) \div (IF d > 0 THEN d ELSE -d))

\* -------------------------------------------------------- the XML report
\* A report is [wf, ifaces]: wf = FALSE is a file that is not well-formed
\* XML.  An interface is
\*   [mols, hb, sb, int_area, stab_en, int_solv_en, overlap, pvalue]
\* mols     : sequence of [chain, residues]; chain = "" is a molecule
\*            without chain_id (or with an empty one)
\* residues : sequence of [name, seq, asa, bsa, solv_en] (texts)
\* hb, sb   : [present, bonds]; bonds a sequence of [c1, s1, c2, s2]
NoSection == [present |-> FALSE, bonds |-> <<>>]
Section(bs) == [present |-> TRUE, bonds |-> bs]
Malformed == [wf |-> FALSE, ifaces |-> <<>>]
Report(is) == [wf |-> TRUE, ifaces |-> is]

\* root.findall(".//molecule"): every molecule of the document, in order
Molecules(report) ==
    Concat([i \in 1..Len(report.ifaces) |-> report.ifaces[i].mols])

\* ----------------------------------------- pisa_final.py: chain validation
ChainsPresent(report) ==
    {m.chain : m \in Range(Molecules(report))} \ {""}

\* _assert_chain_present: ok, or the RuntimeError it raises
AssertChainPresentMissingOk(report, requested_chain) ==
    IF ~report.wf
    THEN [ok |-> FALSE, kind |-> "malformed", requested |-> requested_chain,
          present |-> {}]
    ELSE [ok |-> TRUE, kind |-> "none", requested |-> requested_chain,
          present |-> ChainsPresent(report)]

AssertChainPresent(report, requested_chain) ==
    IF ~report.wf
    THEN [ok |-> FALSE, kind |-> "malformed", requested |-> requested_chain,
          present |-> {}]
    ELSE IF requested_chain \notin ChainsPresent(report)
    THEN [ok |-> FALSE, kind |-> "nochain", requested |-> requested_chain,
          present |-> ChainsPresent(report)]
    ELSE [ok |-> TRUE, kind |-> "none", requested |-> requested_chain,
          present |-> ChainsPresent(report)]

\* ------------------------------------------------- residues and bond counts
\* the residue texts of the document, each with the chain of its molecule
ResidueTexts(report) ==
    LET ms == Molecules(report)
    IN  Concat([m \in 1..Len(ms) |->
            [r \in 1..Len(ms[m].residues) |->
                [chain |-> ms[m].chain,
                 name |-> ms[m].residues[r].name,
                 seq |-> ms[m].residues[r].seq,
                 asa |-> ms[m].residues[r].asa,
                 bsa |-> ms[m].residues[r].bsa,
                 solv_en |-> ms[m].residues[r].solv_en]]])

ResidueRaises(rt, strict) ==
    \/ ~ReadNum(rt.seq, strict).ok \/ ~ReadNum(rt.asa, strict).ok
    \/ ~ReadNum(rt.bsa, strict).ok \/ ~ReadNum(rt.solv_en, strict).ok

ParsedResidue(rt, strict) ==
    [chain |-> rt.chain, name |-> rt.name, seq |-> ReadNum(rt.seq, strict).v,
     asa |-> ReadNum(rt.asa, strict).v, bsa |-> ReadNum(rt.bsa, strict).v]

\* one bond of a section: it is looked at only when an endpoint is on the
\* requested chain; both sequence numbers are then converted, and each
\* qualifying endpoint adds one
BondRaises(b, chain_id, strict) ==
    /\ (b.c1 = chain_id \/ b.c2 = chain_id)
    /\ (~ReadNum(b.s1, strict).ok \/ ~ReadNum(b.s2, strict).ok)

\* a bug variant: a bond is counted once when any endpoint qualifies
BondAddsOncePerBond(b, chain_id, residue_counter, strict) ==
    IF \/ b.c1 = chain_id /\ ReadNum(b.s1, strict).v >= residue_counter
       \/ b.c2 = chain_id /\ ReadNum(b.s2, strict).v >= residue_counter
    THEN 1 ELSE 0

BondAdds(b, chain_id, residue_counter, strict) ==
    IF b.c1 = chain_id \/ b.c2 = chain_id
    THEN (IF b.c1 = chain_id /\ ReadNum(b.s1, strict).v >= residue_counter THEN 1 ELSE 0)
       + (IF b.c2 = chain_id /\ ReadNum(b.s2, strict).v >= residue_counter THEN 1 ELSE 0)
    ELSE 0

\* all bonds of one kind ("hb" or "sb") of the document, in order
AllBonds(report, kind) ==
    Concat([i \in 1..Len(report.ifaces) |->
        IF kind = "hb" THEN report.ifaces[i].hb.bonds
        ELSE report.ifaces[i].sb.bonds])

CountBonds(bonds, chain_id, residue_counter, strict) ==
    SumSeq([i \in 1..Len(bonds) |->
        BondAdds(bonds[i], chain_id, residue_counter, strict)])

\* parse_xml_residues_and_bonds (pisa_final.py): [ok, residues, hb, sb];
\* ok = FALSE is an uncaught ValueError
parse_xml_residues_and_bonds(report, chain_id, residue_counter) ==
    IF ~report.wf THEN [ok |-> TRUE, residues |-> <<>>, hb |-> 0, sb |-> 0]
    ELSE LET rts == ResidueTexts(report)
             hbs == AllBonds(report, "hb")
             sbs == AllBonds(report, "sb")
         IN  IF \/ \E i \in 1..Len(rts) : ResidueRaises(rts[i], FALSE)
                \/ \E i \in 1..Len(hbs) : BondRaises(hbs[i], chain_id, FALSE)
                \/ \E i \in 1..Len(sbs) : BondRaises(sbs[i], chain_id, FALSE)
             THEN [ok |-> FALSE, residues |-> <<>>, hb |-> 0, sb |-> 0]
             ELSE [ok |-> TRUE,
                   residues |-> [i \in 1..Len(rts) |->
                                    ParsedResidue(rts[i], FALSE)],
                   hb |-> CountBonds(hbs, chain_id, residue_counter, FALSE),
                   sb |-> CountBonds(sbs, chain_id, residue_counter, FALSE)]

\* parse_xml (pisa.py): as above, but every element is dereferenced without
\* a default, so a missing chain_id, name, bond chain or bond section raises
\* too
parse_xml(report, chain_id, residue_counter) ==
    IF ~report.wf THEN [ok |-> TRUE, residues |-> <<>>, hb |-> 0, sb |-> 0]
    ELSE LET rts == ResidueTexts(report)
             hbs == AllBonds(report, "hb")
             sbs == AllBonds(report, "sb")
             ms == Molecules(report)
         IN  IF \/ \E i \in 1..Len(ms) : ms[i].chain = ""
                \/ \E i \in 1..Len(rts) :
                      rts[i].name = "" \/ ResidueRaises(rts[i], TRUE)
                \/ \E i \in 1..Len(report.ifaces) :
                      ~report.ifaces[i].hb.present \/ ~report.ifaces[i].sb.present
                \/ \E i \in 1..Len(hbs) :
                      \/ hbs[i].c1 = "" \/ hbs[i].c2 = ""
                      \/ BondRaises(hbs[i], chain_id, TRUE)
                \/ \E i \in 1..Len(sbs) :
                      \/ sbs[i].c1 = "" \/ sbs[i].c2 = ""
                      \/ BondRaises(sbs[i], chain_id, TRUE)
             THEN [ok |-> FALSE, residues |-> <<>>, hb |-> 0, sb |-> 0]
             ELSE [ok |-> TRUE,
                   residues |-> [i \in 1..Len(rts) |->
                                    ParsedResidue(rts[i], TRUE)],
                   hb |-> CountBonds(hbs, chain_id, residue_counter, TRUE),
                   sb |-> CountBonds(sbs, chain_id, residue_counter, TRUE)]

\* --------------------------------------------------------- buried-area score
\* int(((bsa / asa) * 100.0) / 10.0)
Bars(bsa, asa) == TruncDiv(10 * bsa, asa)

calculate_total_bsa_score(residues, chain_id, residue_counter) ==
    SumSeq([i \in 1..Len(residues) |->
        IF /\ residues[i].chain = chain_id
           /\ residues[i].seq >= residue_counter
           /\ residues[i].asa # 0
        THEN Bars(residues[i].bsa, residues[i].asa) ELSE 0])

\* ------------------------------------------------------- residue composition
\* compute_interface_residue_stats: [n, pct_polar, pct_hyd]; the percentages
\* are the hundredths printed by f"{pct:.2f}"
compute_interface_residue_stats(residues, chain_id, residue_counter) ==
    LET iface == SelectSeq(residues,
                    LAMBDA r : r.chain = chain_id /\ r.seq >= residue_counter
                               /\ r.bsa > 0)
        n == Len(iface)
        hyd == Cardinality({i \in 1..n : StripUpper(iface[i].name) \in HYDROPHOBIC})
        polar == Cardinality({i \in 1..n :
                    StripUpper(iface[i].name) \in POLAR_UNCHARGED \cup CHARGED})
    IN  IF n = 0 THEN [n |-> 0, pct_polar |-> Blank, pct_hyd |-> Blank]
        ELSE [n |-> n,
              pct_polar |-> Val(RoundDiv(10000 * polar, n)),
              pct_hyd |-> Val(RoundDiv(10000 * hyd, n))]

\* ------------------------------------------------------ interface energetics
\* (interface.findtext("overlap") or "").strip() on the modelled texts
Strip(s) == IF s = " Yes " THEN "Yes" ELSE s

\* math.log10 on the modelled p-values (1e-4 units), result in 1e-4 units:
\* log10(0.001) = -3, log10(0.01) = -2, log10(0.05) = -1.30103, log10(1) = 0
\* float("inf"), held as a value no modelled arithmetic reaches
PInf == 1000000000
IsFinite(x) == x # PInf /\ x # -PInf

Log10(p) ==
    CASE p = 10 -> -30000
      [] p = 100 -> -20000
      [] p = 500 -> -13010
      [] p = PInf -> PInf
      [] OTHER -> 0

IfaceChains(interface) == {m.chain : m \in Range(interface.mols)} \ {""}

\* the loop state before the first interface (best_* = None)
NoBest == [iface_count |-> 0, total_area |-> 0, have_area |-> FALSE,
           best_stab_en |-> Blank, best_solv_en |-> Blank,
           best_overlap |-> [b |-> TRUE, v |-> ""], best_pvalue |-> Blank]

\* a bug variant of the loop body: <= lets a later interface of equal
\* stab_en replace the best one
EnergeticsStepLastWins(acc, interface, chain_id) ==
    IF chain_id \notin IfaceChains(interface) THEN acc
    ELSE LET int_area == FloatOrNone(interface.int_area)
             stab_en == FloatOrNone(interface.stab_en)
             better == /\ ~stab_en.b
                       /\ (acc.best_stab_en.b \/ stab_en.v <= acc.best_stab_en.v)
         IN  [iface_count |-> acc.iface_count + 1,
              total_area |-> IF int_area.b THEN acc.total_area
                             ELSE acc.total_area + int_area.v,
              have_area |-> acc.have_area \/ ~int_area.b,
              best_stab_en |-> IF better THEN stab_en ELSE acc.best_stab_en,
              best_solv_en |-> IF better THEN FloatOrNone(interface.int_solv_en)
                               ELSE acc.best_solv_en,
              best_overlap |-> IF better
                               THEN [b |-> FALSE, v |-> Strip(interface.overlap)]
                               ELSE acc.best_overlap,
              best_pvalue |-> IF better THEN FloatOrNone(interface.pvalue)
                              ELSE acc.best_pvalue]

\* one pass of the body of "for interface in root.findall('.//interface')"
EnergeticsStep(acc, interface, chain_id) ==
    IF chain_id \notin IfaceChains(interface) THEN acc
    ELSE LET int_area == FloatOrNone(interface.int_area)
             stab_en == FloatOrNone(interface.stab_en)
             better == /\ ~stab_en.b
                       /\ (acc.best_stab_en.b \/ stab_en.v < acc.best_stab_en.v)
         IN  [iface_count |-> acc.iface_count + 1,
              total_area |-> IF int_area.b THEN acc.total_area
                             ELSE acc.total_area + int_area.v,
              have_area |-> acc.have_area \/ ~int_area.b,
              best_stab_en |-> IF better THEN stab_en ELSE acc.best_stab_en,
              best_solv_en |-> IF better THEN FloatOrNone(interface.int_solv_en)
                               ELSE acc.best_solv_en,
              best_overlap |-> IF better
                               THEN [b |-> FALSE, v |-> Strip(interface.overlap)]
                               ELSE acc.best_overlap,
              best_pvalue |-> IF better THEN FloatOrNone(interface.pvalue)
                              ELSE acc.best_pvalue]

RECURSIVE EnergeticsLoop(_, _, _)
EnergeticsLoop(ifaces, n, chain_id) ==
    IF n = 0 THEN NoBest
    ELSE EnergeticsStep(EnergeticsLoop(ifaces, n - 1, chain_id),
                        ifaces[n], chain_id)

\* a bug variant: no test of the p-value before the logarithm
SpecificityUnguarded(best_pvalue) ==
    IF ~best_pvalue.b
    THEN Val(Fmt3(-Log10(best_pvalue.v)))
    ELSE Blank

\* the specificity string: blank unless the best p-value is > 0 and its
\* logarithm is finite
Specificity(best_pvalue) ==
    IF ~best_pvalue.b /\ best_pvalue.v > 0 /\ IsFinite(-Log10(best_pvalue.v))
    THEN Val(Fmt3(-Log10(best_pvalue.v)))
    ELSE Blank

\* parse_interface_energetics_and_area: the 6-tuple it returns, as a record
parse_interface_energetics_and_area(report, chain_id) ==
    IF ~report.wf
    THEN [iface_count |-> 0, total_area |-> Blank, dg |-> Blank, solv |-> Blank,
          overlap |-> "", specificity |-> Blank]
    ELSE LET acc == EnergeticsLoop(report.ifaces, Len(report.ifaces), chain_id)
         IN  [iface_count |-> acc.iface_count,
              total_area |-> IF acc.have_area THEN Val(Fmt2(acc.total_area))
                             ELSE Blank,
              dg |-> IF acc.best_stab_en.b THEN Blank
                     ELSE Val(Fmt2(acc.best_stab_en.v)),
              solv |-> IF acc.best_solv_en.b THEN Blank
                       ELSE Val(Fmt3(acc.best_solv_en.v)),
              overlap |-> IF acc.best_overlap.b THEN "" ELSE acc.best_overlap.v,
              specificity |-> Specificity(acc.best_pvalue)]

\* ------------------------------------------------------ process_pdb_file
\* the row returned on the except path of pisa_final.process_pdb_file
FailureRow(base_filename) ==
    <<base_filename, 0, 0, 0, 0, Blank, Blank, Blank, "", Blank, 0, Blank, Blank>>

\* the row returned on the except path of pisa.process_pdb_file
FailureRowPisa(base_filename) == <<base_filename, 0, 0, 0>>

\* the part of pisa_final.process_pdb_file after the try block:
\* [ok, row]; ok = FALSE is an exception leaving process_pdb_file
DeriveFinal(report, base_filename, chain_id, residue_counter) ==
    LET p == parse_xml_residues_and_bonds(report, chain_id, residue_counter)
        st == compute_interface_residue_stats(p.residues, chain_id, residue_counter)
        en == parse_interface_energetics_and_area(report, chain_id)
    IN  IF ~p.ok THEN [ok |-> FALSE, row |-> <<>>]
        ELSE [ok |-> TRUE,
              row |-> <<base_filename,
                        calculate_total_bsa_score(p.residues, chain_id, residue_counter),
                        p.sb, p.hb,
                        en.iface_count, en.total_area, en.dg, en.solv,
                        en.overlap, en.specificity,
                        st.n, st.pct_polar, st.pct_hyd>>]

\* the part of pisa.process_pdb_file after the try block; the tuple is
\* (base_filename, total_bsa_score, h_bonds_count, salt_bridges_count)
DerivePisa(report, base_filename, chain_id, residue_counter) ==
    LET p == parse_xml(report, chain_id, residue_counter)
    IN  IF ~p.ok THEN [ok |-> FALSE, row |-> <<>>]
        ELSE [ok |-> TRUE,
              row |-> <<base_filename,
                        calculate_total_bsa_score(p.residues, chain_id, residue_counter),
                        p.hb, p.sb>>]

\* ------------------------------------ process_file (parallel_pisa_estimates)
\* the module-level residue_counter of parallel_pisa_estimates.py; the chain
\* is the literal 'A'
EstimatesFloor == 44

\* line 69-72 for one converted residue: a residue with bsa != 0.0 on chain
\* A at or above the floor is divided by its asa without a test for zero
EstimatesDivides(r) == r.bsa # 0 /\ r.chain = "A" /\ r.seq >= EstimatesFloor
EstimatesDividesByZero(r) == EstimatesDivides(r) /\ r.asa = 0

\* process_file after the three pisa commands: [ok, none, row].  none is
\* the "return None" of a report that is not well-formed; ok = FALSE is an
\* exception leaving process_file.  The bond loops search below each
\* molecule element, where a report holds no bond, so both totals stay 0.
DeriveEstimates(report, base_filename) ==
    IF ~report.wf THEN [ok |-> TRUE, none |-> TRUE, row |-> <<>>]
    ELSE LET ms == Molecules(report)
             rts == ResidueTexts(report)
         IN  IF \/ \E i \in 1..Len(ms) : ms[i].chain = ""
                \/ \E i \in 1..Len(rts) :
                      \/ rts[i].name = ""
                      \/ ResidueRaises(rts[i], TRUE)
                      \/ EstimatesDividesByZero(ParsedResidue(rts[i], TRUE))
             THEN [ok |-> FALSE, none |-> FALSE, row |-> <<>>]
             ELSE [ok |-> TRUE, none |-> FALSE,
                   row |-> <<base_filename,
                             SumSeq([i \in 1..Len(rts) |->
                                LET r == ParsedResidue(rts[i], TRUE)
                                IN  IF EstimatesDivides(r)
                                    THEN Bars(r.bsa, r.asa) ELSE 0]),
                             0, 0>>]

\* ------------------------------------------------- reports used by the batch
Res(name, seq, asa, bsa) ==
    [name |-> name, seq |-> seq, asa |-> Txt(asa), bsa |-> Txt(bsa),
     solv_en |-> Txt(0)]
Bond(c1, s1, c2, s2) == [c1 |-> c1, s1 |-> s1, c2 |-> c2, s2 |-> s2]
Mol(chain, residues) == [chain |-> chain, residues |-> residues]

\* chains A and B in contact: on chain A one residue half buried, two
\* hydrogen-bond endpoints and one salt-bridge endpoint
GoodIface ==
    [mols |-> << Mol("A", << Res("ALA", Txt(12), 1000000, 500000),
                             Res("SER", Txt(5), 800000, 800000) >>),
                 Mol("B", << Res("LYS", Txt(3), 900000, 300000) >>) >>,
     hb |-> Section(<< Bond("A", Txt(12), "B", Txt(3)),
                       Bond("B", Txt(4), "A", Txt(15)) >>),
     sb |-> Section(<< Bond("A", Txt(12), "B", Txt(7)) >>),
     int_area |-> Txt(4500000), stab_en |-> Txt(-75000),
     int_solv_en |-> Txt(-52000), overlap |-> "No", pvalue |-> Txt(10)]

\* chain A present, nothing buried, no bond, no energetics
ZeroIface ==
    [mols |-> << Mol("A", << Res("ALA", Txt(12), 1000000, 0) >>),
                 Mol("B", << >>) >>,
     hb |-> Section(<< >>), sb |-> Section(<< >>),
     int_area |-> Absent, stab_en |-> Absent, int_solv_en |-> Absent,
     overlap |-> "", pvalue |-> Absent]

\* the good interface with one more residue, on chain B, whose seq_num
\* is not an integer
BadSeqIface ==
    [GoodIface EXCEPT !.mols[2].residues =
        << Res("LYS", Txt(3), 900000, 300000), Res("GLU", Bad, 700000, 0) >>]

\* an interface between chains B and C only
NoChainIface ==
    [GoodIface EXCEPT !.mols = << Mol("B", << Res("LYS", Txt(3), 900000, 300000) >>),
                                  Mol("C", << >>) >>,
                      !.hb = Section(<< Bond("B", Txt(3), "C", Txt(8)) >>),
                      !.sb = Section(<< >>)]

SampleReports ==
    << Malformed, Report(<< NoChainIface >>), Report(<< GoodIface >>),
       Report(<< BadSeqIface >>), Report(<< ZeroIface >>) >>

ReportIds == 1..Len(SampleReports)

\* ---------------------------------------------------------- the batch run
VARIABLES
    runner,       \* "pisa_final" or "pisa": which script runs
    max_workers,  \* size of the ThreadPoolExecutor
    nfiles,       \* number of *.pdb files found; the files are 1..nfiles
    pc,           \* position of main
    submitted,    \* files 1..submitted have been passed to executor.submit
    threads,      \* worker threads the executor has spawned
    jst,          \* per file: stage of its process_pdb_file call
    xml,          \* per file: report written by the emit step (0 = none)
    outc,         \* per file: what the future holds, and the error logged
    results,      \* the list "results" of main
    contacts,     \* the rows of contacts.csv
    written,      \* contacts.csv has been written
    exitCode      \* exit code of the process (-1 while running)

batchVars == <<runner, max_workers, nfiles, pc, submitted, threads, jst, xml,
               outc, results, contacts, written, exitCode>>

Jobs == 1..NumFiles
Active == {"analyse", "emit", "erase"}
Running == Cardinality({j \in Jobs : jst[j] \in Active})

\* chain and floor: --chain / --residue_counter of pisa_final.py; pisa.py
\* always uses chain A and floor 0 (initialize_parameters)
ChainId == "A"
Runners == {"pisa_final", "pisa"}
FloorOf(rn) == IF rn = "pisa_final" THEN 10 ELSE 0
ResidueCounter == FloorOf(runner)

NoReason == [kind |-> "none", step |-> "none", requested |-> "", present |-> {}]
NonZero(step) == [kind |-> "nonzero", step |-> step, requested |-> "", present |-> {}]
NoOutcome == [kind |-> "none", row |-> <<>>, reason |-> NoReason, derived |-> FALSE]

\* the pool sizes tried: one worker (the jobs run one after another) and
\* the largest size
WorkerCounts == {1, MaxWorkersBound}

BatchInit ==
    /\ runner \in Runners
    /\ max_workers \in WorkerCounts
    /\ nfiles = 0
    /\ pc = "config"
    /\ submitted = 0
    /\ threads = 0
    /\ jst = [j \in Jobs |-> "new"]
    /\ xml = [j \in Jobs |-> 0]
    /\ outc = [j \in Jobs |-> NoOutcome]
    /\ results = <<>>
    /\ contacts = <<>>
    /\ written = FALSE
    /\ exitCode = -1

\* --- main, before the pool ---------------------------------------------
\* load_environment / preflight_check_pisa (pisa_final) or
\* load_ccp4_environment / read_settings (pisa) raise: uncaught, exit code 1
ConfigError ==
    /\ pc = "config"
    /\ pc' = "crashed"
    /\ exitCode' = 1
    /\ UNCHANGED <<runner, max_workers, nfiles, submitted, threads, jst, xml,
                   outc, results, contacts, written>>

\* a bug variant: an empty directory is reported as an error exit
NoFilesExitsOne ==
    /\ pc = "config"
    /\ pc' = "done"
    /\ exitCode' = 1
    /\ UNCHANGED <<runner, max_workers, nfiles, submitted, threads, jst, xml,
                   outc, results, contacts, written>>

\* total_files == 0: warning, then return (pisa_final) or sys.exit(0) (pisa)
NoFiles ==
    /\ pc = "config"
    /\ pc' = "done"
    /\ exitCode' = 0
    /\ UNCHANGED <<runner, max_workers, nfiles, submitted, threads, jst, xml,
                   outc, results, contacts, written>>

\* pdb_files = [f for f in os.listdir(".") if f.endswith(".pdb")]
Enumerate(n) ==
    /\ pc = "config"
    /\ nfiles' = n
    /\ pc' = "submit"
    /\ UNCHANGED <<runner, max_workers, submitted, threads, jst, xml, outc,
                   results, contacts, written, exitCode>>

\* --- the executor ---------------------------------------------------------
\* executor.submit: the call is queued and a worker thread is spawned while
\* fewer than max_workers exist
Submit ==
    /\ pc = "submit"
    /\ submitted' = submitted + 1
    /\ jst' = [jst EXCEPT ![submitted + 1] = "queued"]
    /\ threads' = IF threads < max_workers THEN threads + 1 ELSE threads
    /\ pc' = IF submitted + 1 = nfiles THEN "collect" ELSE "submit"
    /\ UNCHANGED <<runner, max_workers, nfiles, xml, outc, results, contacts,
                   written, exitCode>>

CanStartUnbounded(running, nthreads) == TRUE

\* a queued call starts when one of the spawned worker threads is free
CanStart(running, nthreads) == running < nthreads

\* a worker thread takes the oldest queued call
Start(j) ==
    /\ jst[j] = "queued"
    /\ \A i \in 1..(j - 1) : jst[i] # "queued"
    /\ CanStart(Running, threads)
    /\ jst' = [jst EXCEPT ![j] = "analyse"]
    /\ UNCHANGED <<runner, max_workers, nfiles, pc, submitted, threads, xml,
                   outc, results, contacts, written, exitCode>>

\* --- process_pdb_file -------------------------------------------------------
FailRow(j) == IF runner = "pisa_final" THEN FailureRow(j) ELSE FailureRowPisa(j)

\* a bug variant: the exception is not caught and ends up in the future
FailedRaises(j, reason) ==
    /\ jst' = [jst EXCEPT ![j] = "finished"]
    /\ outc' = [outc EXCEPT ![j] = [kind |-> "raised", row |-> <<>>,
                                    reason |-> reason, derived |-> FALSE]]

\* the except path: logging.error(reason), return the zero/blank row
Failed(j, reason) ==
    /\ jst' = [jst EXCEPT ![j] = "finished"]
    /\ outc' = [outc EXCEPT ![j] = [kind |-> "failed", row |-> FailRow(j),
                                    reason |-> reason, derived |-> FALSE]]

jobFrame == <<runner, max_workers, nfiles, pc, submitted, threads, results,
              contacts, written, exitCode>>

\* pisa <file> -analyse <file>
AnalyseOk(j) ==
    /\ jst[j] = "analyse"
    /\ jst' = [jst EXCEPT ![j] = "emit"]
    /\ UNCHANGED <<xml, outc>>
    /\ UNCHANGED jobFrame

AnalyseFail(j) ==
    /\ jst[j] = "analyse"
    /\ Failed(j, NonZero("analyse"))
    /\ UNCHANGED xml
    /\ UNCHANGED jobFrame

\* _assert_chain_present on each sample report, evaluated once
ChainCheck == [r \in ReportIds |-> AssertChainPresent(SampleReports[r], ChainId)]

\* the statements after the try block of each runner, on each sample report
\* and for each file, evaluated once
Derivations ==
    [rn \in Runners |-> [r \in ReportIds |-> [j \in Jobs |->
        IF rn = "pisa_final"
        THEN DeriveFinal(SampleReports[r], j, ChainId, FloorOf(rn))
        ELSE DerivePisa(SampleReports[r], j, ChainId, FloorOf(rn))]]]

\* the statements after the try block, on the report r
Derive(j, r) == Derivations[runner][r][j]

\* pisa <file> -xml interfaces > <base>.xml exits zero, leaving report r;
\* in pisa_final _assert_chain_present(xml_output, chain_id) then passes
EmitOk(j, r) ==
    /\ jst[j] = "emit"
    /\ runner = "pisa_final" => ChainCheck[r].ok
    /\ xml' = [xml EXCEPT ![j] = r]
    /\ jst' = [jst EXCEPT ![j] = "erase"]
    /\ UNCHANGED outc
    /\ UNCHANGED jobFrame

\* the emit step exits zero, leaving report r, and _assert_chain_present
\* raises (pisa_final only): the except path is taken with its message
EmitCheckFail(j, r) ==
    /\ jst[j] = "emit"
    /\ runner = "pisa_final"
    /\ xml' = [xml EXCEPT ![j] = r]
    /\ LET c == ChainCheck[r]
       IN  /\ ~c.ok
           /\ Failed(j, [kind |-> c.kind, step |-> "check",
                         requested |-> c.requested, present |-> c.present])
    /\ UNCHANGED jobFrame

EmitFail(j) ==
    /\ jst[j] = "emit"
    /\ Failed(j, NonZero("emit"))
    /\ UNCHANGED xml
    /\ UNCHANGED jobFrame

\* pisa <file> -erase exits zero and the derivation returns its tuple;
\* parse_xml of pisa.py has logged an error when the report was not
\* well-formed
EraseOk(j) ==
    /\ jst[j] = "erase"
    /\ Derive(j, xml[j]).ok
    /\ jst' = [jst EXCEPT ![j] = "finished"]
    /\ outc' = [outc EXCEPT ![j] =
                  [kind |-> "row", row |-> Derive(j, xml[j]).row,
                   reason |-> IF SampleReports[xml[j]].wf THEN NoReason
                              ELSE [kind |-> "malformed", step |-> "derive",
                                    requested |-> "", present |-> {}],
                   derived |-> TRUE]]
    /\ UNCHANGED xml
    /\ UNCHANGED jobFrame

\* pisa <file> -erase exits zero and the derivation raises: the exception
\* leaves process_pdb_file and is stored in the future
EraseOkDeriveRaise(j) ==
    /\ jst[j] = "erase"
    /\ ~Derive(j, xml[j]).ok
    /\ jst' = [jst EXCEPT ![j] = "finished"]
    /\ outc' = [outc EXCEPT ![j] = [kind |-> "raised", row |-> <<>>,
                                    reason |-> NoReason, derived |-> TRUE]]
    /\ UNCHANGED xml
    /\ UNCHANGED jobFrame

EraseFail(j) ==
    /\ jst[j] = "erase"
    /\ Failed(j, NonZero("erase"))
    /\ UNCHANGED xml
    /\ UNCHANGED jobFrame

\* --- main, the as_completed loop ----------------------------------------
\* a bug variant: the row of a failed job is dropped instead of appended
CollectRowSkipsFailed(j) ==
    /\ pc = "collect"
    /\ jst[j] = "finished"
    /\ outc[j].kind \in {"row", "failed"}
    /\ jst' = [jst EXCEPT ![j] = "collected"]
    /\ results' = IF outc[j].kind = "row" THEN Append(results, outc[j].row)
                  ELSE results
    /\ UNCHANGED <<runner, max_workers, nfiles, pc, submitted, threads, xml,
                   outc, contacts, written, exitCode>>

\* future.result() returns a tuple: results.append(res)
CollectRow(j) ==
    /\ pc = "collect"
    /\ jst[j] = "finished"
    /\ outc[j].kind \in {"row", "failed"}
    /\ jst' = [jst EXCEPT ![j] = "collected"]
    /\ results' = Append(results, outc[j].row)
    /\ UNCHANGED <<runner, max_workers, nfiles, pc, submitted, threads, xml,
                   outc, contacts, written, exitCode>>

\* future.result() re-raises in pisa_final.main: nothing catches it, the
\* with block is left and executor.shutdown(wait=True) runs
CollectRaiseFinal(j) ==
    /\ pc = "collect"
    /\ runner = "pisa_final"
    /\ jst[j] = "finished"
    /\ outc[j].kind = "raised"
    /\ jst' = [jst EXCEPT ![j] = "collected"]
    /\ pc' = "draining"
    /\ UNCHANGED <<runner, max_workers, nfiles, submitted, threads, xml, outc,
                   results, contacts, written, exitCode>>

\* future.result() re-raises in pisa.main: except Exception logs
\* "Error processing <file>" and the loop goes on; nothing is appended
CollectRaisePisa(j) ==
    /\ pc = "collect"
    /\ runner = "pisa"
    /\ jst[j] = "finished"
    /\ outc[j].kind = "raised"
    /\ jst' = [jst EXCEPT ![j] = "collected"]
    /\ outc' = [outc EXCEPT ![j].reason =
                  [kind |-> "exception", step |-> "collect",
                   requested |-> "", present |-> {}]]
    /\ UNCHANGED <<runner, max_workers, nfiles, pc, submitted, threads, xml,
                   results, contacts, written, exitCode>>

\* shutdown(wait=True) after the exception: queued calls still run; when
\* all have returned the exception leaves main, exit code 1
Drained ==
    /\ pc = "draining"
    /\ \A j \in 1..nfiles : jst[j] \in {"finished", "collected"}
    /\ pc' = "crashed"
    /\ exitCode' = 1
    /\ UNCHANGED <<runner, max_workers, nfiles, submitted, threads, jst, xml,
                   outc, results, contacts, written>>

\* --- main, contacts.csv ---------------------------------------------------
\* pisa_final.main: the tuple is unpacked as (base_name, bsa_score,
\* salt_bridges, h_bonds, iface_count, ...) and written in header order
CsvRowFinal(t) ==
    [binder |-> t[1], bsa_score |-> t[2], salt_bridges |-> t[3],
     h_bonds |-> t[4], interface_count |-> t[5], interface_area_A2 |-> t[6],
     dg_dissociation |-> t[7], solvation_energy_gain |-> t[8],
     overlap |-> t[9], specificity |-> t[10],
     interface_residue_count |-> t[11], pct_polar |-> t[12],
     pct_hydrophobic |-> t[13]]

\* pisa.main: "base_filename, total_bsa_score, salt_bridges_count,
\* h_bonds_count = result", written under binder,bsa_score,salt_bridges,h_bonds
CsvRowPisa(t) ==
    LET base_filename == t[1]
        total_bsa_score == t[2]
        salt_bridges_count == t[3]
        h_bonds_count == t[4]
    IN  [binder |-> base_filename, bsa_score |-> total_bsa_score,
         salt_bridges |-> salt_bridges_count, h_bonds |-> h_bonds_count]

\* a bug variant: the files are moved and contacts.csv is written without
\* waiting for the pool
WriteContactsEarly ==
    /\ pc = "collect"
    /\ contacts' = [i \in 1..Len(results) |->
                      IF runner = "pisa_final" THEN CsvRowFinal(results[i])
                      ELSE CsvRowPisa(results[i])]
    /\ written' = TRUE
    /\ pc' = "done"
    /\ exitCode' = 0
    /\ UNCHANGED <<runner, max_workers, nfiles, submitted, threads, jst, xml,
                   outc, results>>

\* every future has been yielded: the with block ends, and main writes
\* contacts.csv from results and returns
WriteContacts ==
    /\ pc = "collect"
    /\ \A j \in 1..nfiles : jst[j] = "collected"
    /\ contacts' = [i \in 1..Len(results) |->
                      IF runner = "pisa_final" THEN CsvRowFinal(results[i])
                      ELSE CsvRowPisa(results[i])]
    /\ written' = TRUE
    /\ pc' = "done"
    /\ exitCode' = 0
    /\ UNCHANGED <<runner, max_workers, nfiles, submitted, threads, jst, xml,
                   outc, results>>

\* ------------------------------------- best-interface selection, stand-alone
VARIABLES
    e_report,   \* the report handed to parse_interface_energetics_and_area
    e_pc,       \* "ready" before the call, "done" after it
    e_out       \* the record it returned

energVars == <<e_report, e_pc, e_out>>

NoEnergetics == [iface_count |-> 0, total_area |-> Blank, dg |-> Blank,
                 solv |-> Blank, overlap |-> "", specificity |-> Blank]

\* ------------------------------------------------------------ the ranking
VARIABLES
    r_table,      \* rows of contacts.csv as read: [binder, overlap, zsum]
    r_pc,         \* position in rank_pisa_final.main
    r_score,      \* per input row: the column "score"
    r_ranked,     \* ranked_all: rows [binder, score, rank, overlap_flag]
    r_no_overlap  \* ranked_no_overlap: rows [binder, score, rank_no_overlap]

rankVars == <<r_table, r_pc, r_score, r_ranked, r_no_overlap>>

\* ------------------------------------------- row derivation, stand-alone
VARIABLES
    d_runner,   \* "pisa_final", "pisa" or "estimates": whose derivation runs
    d_report,   \* the report the emit step left
    d_floor,    \* residue_counter
    d_pc,       \* "ready" before the derivation, "done" after it
    d_out       \* [ok, none, row]: what the derivation returned

derivVars == <<d_runner, d_report, d_floor, d_pc, d_out>>

NoDerived == [ok |-> TRUE, none |-> FALSE, row |-> <<>>]

\* ------------------------------------------- per-job file names, stand-alone
VARIABLES
    f_runner,   \* which script enumerates the directory
    f_dir,      \* the names in the directory that is listed
    f_pc,       \* "ready" before the enumeration, "done" after it
    f_paths     \* per enumerated file: the files its job writes

nameVars == <<f_runner, f_dir, f_pc, f_paths>>

\* ------------------------------------- aggregation and join, stand-alone
VARIABLES
    a_n,         \* number of jobs of the batch; the jobs are 1..a_n
    a_rows,      \* per job: the tuple its future holds
    a_results,   \* the list "results" of pisa_final.main, in completion order
    a_contacts,  \* the rows of contacts.csv
    a_binders,   \* the rows of binders.csv: [description, sequence]
    a_merged,    \* the rows merge_dataframes returns
    a_pc,        \* "collect", "written", "merged"
    a_log        \* the lines merge_binders_contacts has logged

aggVars == <<a_n, a_rows, a_results, a_contacts, a_binders, a_merged, a_pc,
             a_log>>

\* --------------------------------- process_files_in_batches, stand-alone
VARIABLES
    b_n,          \* len(files); the files are 1..b_n in list order
    b_size,       \* batch_size
    b_workers,    \* max_workers
    b_report,     \* per file: the report its emit step leaves
    b_i,          \* the loop variable i (0-based start of the current batch)
    b_pc,         \* position of process_files_in_batches
    b_submitted,  \* files 1..b_submitted have been passed to executor.submit
    b_threads,    \* worker threads the current executor has spawned
    b_batch,      \* per file: number of the batch it was submitted in (0 = none)
    b_jst,        \* per file: stage of its process_file call
    b_out,        \* per file: what its future holds
    b_contacts    \* the rows written to contacts.csv so far

estVars == <<b_n, b_size, b_workers, b_report, b_i, b_pc, b_submitted,
             b_threads, b_batch, b_jst, b_out, b_contacts>>

\* ------------------------------------------- reading the settings file
VARIABLES
    s_script,     \* "pisa" or "process_binders"
    s_exists,     \* the settings file is a file
    s_settings,   \* its max_workers and batch_size values, as text
    s_nfiles,     \* jobs the run has to submit
    s_pc,         \* position of main
    s_workers,    \* max_workers as main holds it (0: not yet set)
    s_submitted   \* jobs passed to executor.submit

setVars == <<s_script, s_exists, s_settings, s_nfiles, s_pc, s_workers, s_submitted>>

\* -------------------------------------------- the worker-count estimators
VARIABLES
    c_script,    \* "compute" (compute.py) or "pisa_final" (estimate_max_workers)
    c_cores,     \* psutil.cpu_count(logical=False); 0 stands for None
    c_oscpu,     \* os.cpu_count(); 0 stands for None
    c_avail,     \* available memory in half GB; -1: /proc/meminfo unreadable
    c_total,     \* total memory in half GB
    c_pc,        \* position of the script
    c_path,      \* how get_disk_io_speed was left
    c_file,      \* the probe file /tmp/test_io_speed exists
    c_workers,   \* the recommended max_workers (Blank: None)
    c_batch,     \* the recommended batch_size
    c_written    \* compute_settings.txt has been written

compVars == <<c_script, c_cores, c_oscpu, c_avail, c_total, c_pc, c_path, c_file,
              c_workers, c_batch, c_written>>

\* ------------------------------------- the sub-invocations of the jobs
VARIABLES
    j_runner,   \* "pisa_final", "pisa" or "estimates"
    j_pc,       \* per job: the statement it is at
    j_busy,     \* per job: the pisa process it waits for, or "none"
    j_calls,    \* per job: the pisa processes that have exited, [step, exit]
    j_session,  \* per job: pisa holds a session for the structure
    j_checked,  \* per job: "none", "passed" or "failed" (_assert_chain_present)
    j_parsed,   \* per job: the report has been parsed for metrics
    j_out       \* per job: "none", "row", "failed", "None" or "raised"

jobVars == <<j_runner, j_pc, j_busy, j_calls, j_session, j_checked, j_parsed, j_out>>

vars == <<batchVars, energVars, rankVars, derivVars, nameVars, aggVars, estVars,
          setVars, compVars, jobVars>>

JobIdle ==
    /\ j_runner = "pisa_final" /\ j_pc = << >> /\ j_busy = << >> /\ j_calls = << >>
    /\ j_session = << >> /\ j_checked = << >> /\ j_parsed = << >> /\ j_out = << >>

CompIdle ==
    /\ c_script = "compute" /\ c_cores = 0 /\ c_oscpu = 0 /\ c_avail = 0
    /\ c_total = 0 /\ c_pc = "idle" /\ c_path = "none" /\ c_file = FALSE
    /\ c_workers = Blank /\ c_batch = 0 /\ c_written = FALSE

SetIdle ==
    /\ s_script = "pisa" /\ s_exists = FALSE
    /\ s_settings = [max_workers |-> Absent, batch_size |-> Absent]
    /\ s_nfiles = 0 /\ s_pc = "idle" /\ s_workers = 0 /\ s_submitted = 0

EstIdle ==
    /\ b_n = 0 /\ b_size = 1 /\ b_workers = 1 /\ b_report = << >> /\ b_i = 0
    /\ b_pc = "idle" /\ b_submitted = 0 /\ b_threads = 0
    /\ b_batch = << >> /\ b_jst = << >> /\ b_out = << >> /\ b_contacts = << >>

AggIdle ==
    /\ a_n = 0 /\ a_rows = << >> /\ a_results = << >> /\ a_contacts = << >>
    /\ a_binders = << >> /\ a_merged = << >> /\ a_pc = "idle" /\ a_log = << >>

NameIdle ==
    /\ f_runner = "pisa_final" /\ f_dir = {} /\ f_pc = "idle" /\ f_paths = << >>

DerivIdle ==
    /\ d_runner = "pisa_final" /\ d_report = Malformed /\ d_floor = 0
    /\ d_pc = "idle" /\ d_out = NoDerived

EnergIdle == e_report = Malformed /\ e_pc = "idle" /\ e_out = NoEnergetics
RankIdle ==
    /\ r_table = <<>> /\ r_pc = "idle" /\ r_score = <<>>
    /\ r_ranked = <<>> /\ r_no_overlap = <<>>
BatchIdle ==
    /\ runner = "pisa_final" /\ max_workers = 1 /\ nfiles = 0 /\ pc = "idle"
    /\ submitted = 0 /\ threads = 0
    /\ jst = [j \in Jobs |-> "new"] /\ xml = [j \in Jobs |-> 0]
    /\ outc = [j \in Jobs |-> NoOutcome]
    /\ results = <<>> /\ contacts = <<>> /\ written = FALSE /\ exitCode = -1

\* ------------------------------------------------ specification: batch run
Init == BatchInit /\ EnergIdle /\ RankIdle /\ DerivIdle /\ NameIdle /\ AggIdle /\ EstIdle /\ SetIdle /\ CompIdle /\ JobIdle

Next ==
    /\ UNCHANGED <<energVars, rankVars, derivVars, nameVars, aggVars, estVars, setVars, compVars, jobVars>>
    /\ \/ ConfigError
       \/ NoFiles
       \/ \E n \in 1..NumFiles : Enumerate(n)
       \/ Submit
       \/ \E j \in Jobs : Start(j)
       \/ \E j \in Jobs : AnalyseOk(j)
       \/ \E j \in Jobs : AnalyseFail(j)
       \/ \E j \in Jobs : \E r \in ReportIds : EmitOk(j, r)
       \/ \E j \in Jobs : EmitFail(j)
       \/ \E j \in Jobs : \E r \in ReportIds : EmitCheckFail(j, r)
       \/ \E j \in Jobs : EraseOk(j)
       \/ \E j \in Jobs : EraseOkDeriveRaise(j)
       \/ \E j \in Jobs : EraseFail(j)
       \/ \E j \in Jobs : CollectRow(j)
       \/ \E j \in Jobs : CollectRaiseFinal(j)
       \/ \E j \in Jobs : CollectRaisePisa(j)
       \/ Drained
       \/ WriteContacts

Spec == Init /\ [][Next]_vars

\* ------------------------------- specification: best-interface selection
\* the optional fields an interface can carry besides stab_en
EnergProfile(k) ==
    CASE k = 1 -> [int_area |-> Txt(4500000), int_solv_en |-> Txt(-52000),
                   overlap |-> "No", pvalue |-> Txt(10)]
      [] k = 2 -> [int_area |-> Txt(3000000), int_solv_en |-> Txt(-11000),
                   overlap |-> " Yes ", pvalue |-> Txt(500)]
      [] OTHER -> [int_area |-> Absent, int_solv_en |-> Absent,
                   overlap |-> "", pvalue |-> Absent]

StabTexts == {Absent, Txt(-75000), Txt(-30000), Txt(-10000)}

\* an interface between chain B and chain A (or chain C when the target
\* chain does not take part)
EnergIface(withTarget, stab, k) ==
    [mols |-> << Mol(IF withTarget THEN "A" ELSE "C", << >>), Mol("B", << >>) >>,
     hb |-> Section(<< >>), sb |-> Section(<< >>),
     int_area |-> EnergProfile(k).int_area, stab_en |-> stab,
     int_solv_en |-> EnergProfile(k).int_solv_en,
     overlap |-> EnergProfile(k).overlap, pvalue |-> EnergProfile(k).pvalue]

EnergIfaceSet ==
    {EnergIface(t, st, k) : t \in BOOLEAN, st \in StabTexts, k \in 1..3}

EnergInit ==
    /\ \E n \in 0..MaxIfaces : \E is \in [1..n -> EnergIfaceSet] :
          e_report = Report(is)
    /\ e_pc = "ready"
    /\ e_out = NoEnergetics

\* iface_count, ... = parse_interface_energetics_and_area(xml_output, chain_id)
RunEnergetics ==
    /\ e_pc = "ready"
    /\ e_out' = parse_interface_energetics_and_area(e_report, ChainId)
    /\ e_pc' = "done"
    /\ UNCHANGED e_report

EnergSpecInit == EnergInit /\ BatchIdle /\ RankIdle /\ DerivIdle /\ NameIdle /\ AggIdle /\ EstIdle /\ SetIdle /\ CompIdle /\ JobIdle
EnergNext == RunEnergetics /\ UNCHANGED <<batchVars, rankVars, derivVars, nameVars, aggVars, estVars, setVars, compVars, jobVars>>
EnergSpec == EnergSpecInit /\ [][EnergNext]_vars

\* ---------------------------------------------- specification: specificity
\* the <pvalue> texts: missing, not a number, 0, negative, 0.001, 1, inf
PValueTexts == {Absent, Bad, Txt(0), Txt(-10), Txt(10), Txt(10000), Txt(PInf)}

\* an interface of the target chain with the given stab_en and p-value,
\* and one the target chain takes no part in
PValueIface(stab, pv) ==
    [mols |-> << Mol("A", << >>), Mol("B", << >>) >>,
     hb |-> Section(<< >>), sb |-> Section(<< >>),
     int_area |-> Txt(4500000), stab_en |-> stab,
     int_solv_en |-> Txt(-52000), overlap |-> "No", pvalue |-> pv]
PValueIfaceSet ==
    {PValueIface(st, pv) : st \in {Absent, Txt(-75000), Txt(-30000)}, pv \in PValueTexts}
        \cup {EnergIface(FALSE, Txt(-75000), 1)}

PValueInit ==
    /\ \E n \in 0..MaxIfaces : \E is \in [1..n -> PValueIfaceSet] :
          e_report = Report(is)
    /\ e_pc = "ready"
    /\ e_out = NoEnergetics

PValueSpecInit ==
    PValueInit /\ BatchIdle /\ RankIdle /\ DerivIdle /\ NameIdle /\ AggIdle /\ EstIdle /\ SetIdle /\ CompIdle /\ JobIdle
PValueNext ==
    RunEnergetics /\ UNCHANGED <<batchVars, rankVars, derivVars, nameVars, aggVars, estVars, setVars, compVars, jobVars>>
PValueSpec == PValueSpecInit /\ [][PValueNext]_vars

\* ------------------------------------------ specification: bond counting
\* the calls of the derivation, one per runner
DeriveCallFinal ==
    /\ d_pc = "ready" /\ d_runner = "pisa_final"
    /\ LET x == DeriveFinal(d_report, 1, ChainId, d_floor)
       IN  d_out' = [ok |-> x.ok, none |-> FALSE, row |-> x.row]
    /\ d_pc' = "done"
    /\ UNCHANGED <<d_runner, d_report, d_floor>>

DeriveCallPisa ==
    /\ d_pc = "ready" /\ d_runner = "pisa"
    /\ LET x == DerivePisa(d_report, 1, ChainId, d_floor)
       IN  d_out' = [ok |-> x.ok, none |-> FALSE, row |-> x.row]
    /\ d_pc' = "done"
    /\ UNCHANGED <<d_runner, d_report, d_floor>>

DeriveCallEstimates ==
    /\ d_pc = "ready" /\ d_runner = "estimates"
    /\ d_out' = DeriveEstimates(d_report, 1)
    /\ d_pc' = "done"
    /\ UNCHANGED <<d_runner, d_report, d_floor>>

\* the floors a runner can be given: --residue_counter of pisa_final.py,
\* the fixed 0 of pisa.py, the module constant of parallel_pisa_estimates.py
FloorsOf(rn) ==
    CASE rn = "pisa_final" -> {0, 10}
      [] rn = "pisa" -> {0}
      [] OTHER -> {EstimatesFloor}

\* bonds between chains A and B: one, both or no endpoint on chain A, at,
\* above or below the floor 10, and sequence numbers that are missing or
\* not integers
BondSamples ==
    { Bond("A", Txt(12), "B", Txt(3)),  Bond("B", Txt(3), "A", Txt(12)),
      Bond("A", Txt(12), "A", Txt(50)), Bond("A", Txt(5), "A", Txt(12)),
      Bond("A", Txt(5), "B", Txt(3)),   Bond("B", Txt(3), "B", Txt(4)),
      Bond("A", Absent, "B", Txt(3)),   Bond("A", Bad, "B", Txt(3)),
      Bond("B", Bad, "B", Txt(3)) }

BondIface(hbs, sbs) ==
    [mols |-> << Mol("A", << >>), Mol("B", << >>) >>,
     hb |-> Section(hbs), sb |-> Section(sbs),
     int_area |-> Absent, stab_en |-> Absent, int_solv_en |-> Absent,
     overlap |-> "", pvalue |-> Absent]

BondInit ==
    /\ d_runner \in {"pisa_final", "pisa"}
    /\ d_floor \in FloorsOf(d_runner)
    /\ \E n \in 0..MaxBonds : \E hbs \in [1..n -> BondSamples] :
         \E m \in 0..MaxSaltBridges : \E sbs \in [1..m -> BondSamples] :
            d_report = Report(<< BondIface(hbs, sbs) >>)
    /\ d_pc = "ready"
    /\ d_out = NoDerived

BondSpecInit == BondInit /\ BatchIdle /\ EnergIdle /\ RankIdle /\ NameIdle /\ AggIdle /\ EstIdle /\ SetIdle /\ CompIdle /\ JobIdle
BondNext ==
    /\ UNCHANGED <<batchVars, energVars, rankVars, nameVars, aggVars, estVars, setVars, compVars, jobVars>>
    /\ \/ DeriveCallFinal
       \/ DeriveCallPisa
BondSpec == BondSpecInit /\ [][BondNext]_vars

\* ------------------------------------- specification: buried-area score
\* residues of chains A and B, below and above the floors, with zero and
\* non-zero asa and bsa (areas in 1e-4 square angstrom)
ScoreResidues ==
    { [name |-> "ALA", seq |-> Txt(q), asa |-> Txt(a), bsa |-> Txt(b),
       solv_en |-> Txt(0)] :
         q \in {5, 12, 50}, a \in {0, 1000000}, b \in {0, 450000, 1000000} }

ScoreIface(ra, rb) ==
    [mols |-> << Mol("A", ra), Mol("B", rb) >>,
     hb |-> Section(<< >>), sb |-> Section(<< >>),
     int_area |-> Absent, stab_en |-> Absent, int_solv_en |-> Absent,
     overlap |-> "", pvalue |-> Absent]

ScoreInit ==
    /\ d_runner \in {"pisa_final", "pisa", "estimates"}
    /\ d_floor \in FloorsOf(d_runner)
    /\ \E n \in 0..MaxResidues : \E k \in 0..n :
         \E rs \in [1..n -> ScoreResidues] :
            d_report = Report(<< ScoreIface(SubSeq(rs, 1, k), SubSeq(rs, k + 1, n)) >>)
    /\ d_pc = "ready"
    /\ d_out = NoDerived

ScoreSpecInit == ScoreInit /\ BatchIdle /\ EnergIdle /\ RankIdle /\ NameIdle /\ AggIdle /\ EstIdle /\ SetIdle /\ CompIdle /\ JobIdle
ScoreNext ==
    /\ UNCHANGED <<batchVars, energVars, rankVars, nameVars, aggVars, estVars, setVars, compVars, jobVars>>
    /\ \/ DeriveCallFinal
       \/ DeriveCallPisa
       \/ DeriveCallEstimates
ScoreSpec == ScoreSpecInit /\ [][ScoreNext]_vars

\* ------------------------- specification: interfaces without chain data
\* interfaces none of whose molecules names a chain: with or without a
\* molecule, with or without a bond that names chain A, with or without
\* energetics (then more stabilising than those of GoodIface)
ChainlessIfaces ==
    { [mols |-> ms, hb |-> Section(hbs), sb |-> Section(sbs),
       int_area |-> en[1], stab_en |-> en[2], int_solv_en |-> en[3],
       overlap |-> en[4], pvalue |-> en[5]] :
         ms \in { << >>, << Mol("", << Res("ALA", Txt(12), 1000000, 500000) >>) >> },
         hbs \in { << >>, << Bond("A", Txt(12), "B", Txt(3)) >> },
         sbs \in { << >>, << Bond("B", Txt(3), "A", Txt(12)) >> },
         en \in { << Absent, Absent, Absent, "", Absent >>,
                  << Txt(2000000), Txt(-90000), Txt(-61000), " Yes ", Txt(100) >> } }

IfaceSamples == ChainlessIfaces \cup {GoodIface, ZeroIface}

IfaceInit ==
    /\ d_runner = "pisa_final"
    /\ d_floor \in FloorsOf(d_runner)
    /\ \E n \in 0..MaxIfaces : \E is \in [1..n -> IfaceSamples] :
          d_report = Report(is)
    /\ d_pc = "ready"
    /\ d_out = NoDerived

IfaceSpecInit == IfaceInit /\ BatchIdle /\ EnergIdle /\ RankIdle /\ NameIdle /\ AggIdle /\ EstIdle /\ SetIdle /\ CompIdle /\ JobIdle
IfaceNext == DeriveCallFinal /\ UNCHANGED <<batchVars, energVars, rankVars, nameVars, aggVars, estVars, setVars, compVars, jobVars>>
IfaceSpec == IfaceSpecInit /\ [][IfaceNext]_vars

\* --------------------------------------- specification: per-job file names
\* A file name is a sequence of pieces; "." is the dot, every other piece
\* is text without a dot.
NamePieces == {"rfdiff_design_", ".", "_af2pred", "pdb"}
Names == UNION {[1..n -> NamePieces] : n \in 1..MaxNameLen}

EndsWith(name, suffix) ==
    /\ Len(name) >= Len(suffix)
    /\ SubSeq(name, Len(name) - Len(suffix) + 1, Len(name)) = suffix
StartsWith(name, prefix) ==
    Len(name) >= Len(prefix) /\ SubSeq(name, 1, Len(prefix)) = prefix

\* os.path.splitext(name)[0]: the name up to its last dot, or the whole
\* name when it has no dot or only dots before the last one
SplitextBase(name) ==
    LET dots == {i \in 1..Len(name) : name[i] = "."}
    IN  IF dots = {} THEN name
        ELSE LET dotIndex == CHOOSE i \in dots : \A k \in dots : k <= i
             IN  IF \E k \in 1..(dotIndex - 1) : name[k] # "."
                 THEN SubSeq(name, 1, dotIndex - 1)
                 ELSE name

\* [f for f in os.listdir(".") if f.endswith(".pdb")]
PdbFiles(dir) == {f \in dir : EndsWith(f, << ".", "pdb" >>)}

\* [file for file in os.listdir(INPUT_DIR) if
\*  file.startswith("rfdiff_design_") and file.endswith("_af2pred.pdb")]
EstimatesFiles(dir) ==
    {f \in dir : /\ StartsWith(f, << "rfdiff_design_" >>)
                 /\ EndsWith(f, << "_af2pred", ".", "pdb" >>)}

\* the files a job of pisa_final.py or pisa.py writes: f"{base_filename}.xml"
XmlOutput(file) == SplitextBase(file) \o << ".", "xml" >>

\* the files process_file of parallel_pisa_estimates.py writes
EstimatesOutputs(file) ==
    { SplitextBase(file) \o << ".", "xml" >>,
      SplitextBase(file) \o << "_sa", ".", "csv" >>,
      SplitextBase(file) \o << "_salt_bridges", ".", "csv" >>,
      SplitextBase(file) \o << "_hbonds", ".", "csv" >> }

NameInit ==
    /\ f_runner \in {"pisa_final", "pisa", "estimates"}
    /\ \E a, b \in Names : f_dir = {a, b}
    /\ f_pc = "ready"
    /\ f_paths = << >>

NameJobsFinal ==
    /\ f_pc = "ready" /\ f_runner = "pisa_final"
    /\ f_paths' = [f \in PdbFiles(f_dir) |-> {XmlOutput(f)}]
    /\ f_pc' = "done"
    /\ UNCHANGED <<f_runner, f_dir>>

NameJobsPisa ==
    /\ f_pc = "ready" /\ f_runner = "pisa"
    /\ f_paths' = [f \in PdbFiles(f_dir) |-> {XmlOutput(f)}]
    /\ f_pc' = "done"
    /\ UNCHANGED <<f_runner, f_dir>>

NameJobsEstimates ==
    /\ f_pc = "ready" /\ f_runner = "estimates"
    /\ f_paths' = [f \in EstimatesFiles(f_dir) |-> EstimatesOutputs(f)]
    /\ f_pc' = "done"
    /\ UNCHANGED <<f_runner, f_dir>>

NameSpecInit == NameInit /\ BatchIdle /\ EnergIdle /\ RankIdle /\ DerivIdle /\ AggIdle /\ EstIdle /\ SetIdle /\ CompIdle /\ JobIdle
NameNext ==
    /\ UNCHANGED <<batchVars, energVars, rankVars, derivVars, aggVars, estVars, setVars, compVars, jobVars>>
    /\ \/ NameJobsFinal
       \/ NameJobsPisa
       \/ NameJobsEstimates
NameSpec == NameSpecInit /\ [][NameNext]_vars

\* ------------------------------------ specification: aggregation and join
\* the tuples a job can return, cut to the four columns the join reads:
\* (base_name, bsa_score, salt_bridges, h_bonds)
AggTuples(j) == { << j, 0, 0, 0 >>, << j, 7, 1, 2 >> }

\* the rows of binders.csv: descriptions of jobs of the batch and of one
\* structure that is not in it, each with its sequence
BinderRows ==
    [description : 1..(NumFiles + 1), sequence : {"MKV", "GSH"}]

AggInit ==
    /\ a_n \in 1..NumFiles
    /\ a_rows \in [1..a_n -> UNION {AggTuples(j) : j \in 1..NumFiles}]
    /\ \A j \in 1..a_n : a_rows[j] \in AggTuples(j)
    /\ a_results = << >>
    /\ a_contacts = << >>
    /\ \E m \in 0..MaxBinders : a_binders \in [1..m -> BinderRows]
    /\ a_merged = << >>
    /\ a_pc = "collect"
    /\ a_log = << >>

\* for future in as_completed(futures): results.append(future.result())
AggCollect(j) ==
    /\ a_pc = "collect"
    /\ \A i \in 1..Len(a_results) : a_results[i][1] # j
    /\ a_results' = Append(a_results, a_rows[j])
    /\ UNCHANGED <<a_n, a_rows, a_contacts, a_binders, a_merged, a_pc, a_log>>

\* the loop that writes contacts.csv from results, in list order
AggWrite ==
    /\ a_pc = "collect"
    /\ Len(a_results) = a_n
    /\ a_contacts' = [i \in 1..Len(a_results) |->
                        [binder |-> a_results[i][1], bsa_score |-> a_results[i][2],
                         salt_bridges |-> a_results[i][3],
                         h_bonds |-> a_results[i][4]]]
    /\ a_pc' = "written"
    /\ UNCHANGED <<a_n, a_rows, a_results, a_binders, a_merged, a_log>>

\* a bug variant of the join: row i of binders.csv is paired with row i of
\* contacts.csv
MergeByPosition(binders_df, contacts_df) ==
    LET n == IF Len(binders_df) < Len(contacts_df) THEN Len(binders_df)
             ELSE Len(contacts_df)
    IN  [i \in 1..n |->
            [description |-> binders_df[i].description,
             sequence |-> binders_df[i].sequence,
             binder |-> contacts_df[i].binder,
             bsa_score |-> contacts_df[i].bsa_score,
             salt_bridges |-> contacts_df[i].salt_bridges,
             h_bonds |-> contacts_df[i].h_bonds]]

\* pd.merge(binders_df, contacts_df[[...]], left_on='description',
\* right_on='binder', how='inner'): for each left row in order, every right
\* row with the same key, in right order
merge_dataframes(binders_df, contacts_df) ==
    Concat([i \in 1..Len(binders_df) |->
        LET hits == SelectSeq(contacts_df,
                       LAMBDA c : c.binder = binders_df[i].description)
        IN  [k \in 1..Len(hits) |->
                [description |-> binders_df[i].description,
                 sequence |-> binders_df[i].sequence,
                 binder |-> hits[k].binder,
                 bsa_score |-> hits[k].bsa_score,
                 salt_bridges |-> hits[k].salt_bridges,
                 h_bonds |-> hits[k].h_bonds]]])

\* a log line: its text and the numbers formatted into it
LogLine(text, numbers) == [text |-> text, numbers |-> numbers]

\* merge_binders_contacts.main: combined_df = merge_dataframes(...), with
\* the logging.info of line 107
AggMerge ==
    /\ a_pc = "written"
    /\ a_merged' = merge_dataframes(a_binders, a_contacts)
    /\ a_log' = Append(a_log,
                  LogLine("Successfully merged binders.csv with contacts.csv", {}))
    /\ a_pc' = "merged"
    /\ UNCHANGED <<a_n, a_rows, a_results, a_contacts, a_binders>>

AggSpecInit == AggInit /\ BatchIdle /\ EnergIdle /\ RankIdle /\ DerivIdle /\ NameIdle /\ EstIdle /\ SetIdle /\ CompIdle /\ JobIdle
AggNext ==
    /\ UNCHANGED <<batchVars, energVars, rankVars, derivVars, nameVars, estVars, setVars, compVars, jobVars>>
    /\ \/ \E j \in 1..a_n : AggCollect(j)
       \/ AggWrite
       \/ AggMerge
AggSpec == AggSpecInit /\ [][AggNext]_vars

\* ---------------------------------- specification: batches of process_file
\* chain A with one residue above the floor 44, half buried
EstGoodIface ==
    [mols |-> << Mol("A", << Res("ALA", Txt(50), 1000000, 500000) >>),
                 Mol("B", << Res("LYS", Txt(3), 900000, 300000) >>) >>,
     hb |-> Section(<< >>), sb |-> Section(<< >>),
     int_area |-> Txt(4500000), stab_en |-> Txt(-75000),
     int_solv_en |-> Txt(-52000), overlap |-> "No", pvalue |-> Txt(10)]

\* the same with asa = 0 on the buried residue
EstZeroAsaIface ==
    [EstGoodIface EXCEPT !.mols[1].residues =
        << Res("ALA", Txt(50), 0, 500000) >>]

EstReports == << Malformed, Report(<< EstGoodIface >>), Report(<< EstZeroAsaIface >>) >>
EstReportIds == 1..Len(EstReports)

EstJobs == 1..b_n
EstRunning == Cardinality({j \in EstJobs : b_jst[j] = "running"})
\* batch = files[i:i+batch_size]
EstBatchFiles == {j \in EstJobs : b_i < j /\ j <= b_i + b_size}

EstInit ==
    /\ b_n \in 1..NumFiles
    /\ b_size \in 1..NumFiles
    /\ b_workers \in WorkerCounts
    /\ b_report \in [1..b_n -> EstReportIds]
    /\ b_i = 0
    /\ b_pc = "submit"
    /\ b_submitted = 0
    /\ b_threads = 0
    /\ b_batch = [j \in 1..b_n |-> 0]
    /\ b_jst = [j \in 1..b_n |-> "new"]
    /\ b_out = [j \in 1..b_n |-> NoDerived]
    /\ b_contacts = << >>

\* executor.submit(process_file, file) for the next file of the batch
EstSubmit ==
    /\ b_pc = "submit"
    /\ LET j == b_submitted + 1
       IN  /\ j \in EstBatchFiles
           /\ b_submitted' = j
           /\ b_jst' = [b_jst EXCEPT ![j] = "queued"]
           /\ b_batch' = [b_batch EXCEPT ![j] = (b_i \div b_size) + 1]
           /\ b_threads' = IF b_threads < b_workers THEN b_threads + 1
                           ELSE b_threads
           /\ b_pc' = IF j + 1 \in EstBatchFiles THEN "submit" ELSE "collect"
    /\ UNCHANGED <<b_n, b_size, b_workers, b_report, b_i, b_out, b_contacts>>

\* a worker thread of the executor takes the oldest queued call
EstStart(j) ==
    /\ b_jst[j] = "queued"
    /\ \A i \in 1..(j - 1) : b_jst[i] # "queued"
    /\ EstRunning < b_threads
    /\ b_jst' = [b_jst EXCEPT ![j] = "running"]
    /\ UNCHANGED <<b_n, b_size, b_workers, b_report, b_i, b_pc, b_submitted,
                   b_threads, b_batch, b_out, b_contacts>>

\* process_file returns a tuple or None, or an exception leaves it
EstFinish(j) ==
    /\ b_jst[j] = "running"
    /\ b_jst' = [b_jst EXCEPT ![j] = "finished"]
    /\ b_out' = [b_out EXCEPT ![j] = DeriveEstimates(EstReports[b_report[j]], j)]
    /\ UNCHANGED <<b_n, b_size, b_workers, b_report, b_i, b_pc, b_submitted,
                   b_threads, b_batch, b_contacts>>

\* result = future.result(); if result: writer.writerow(result)
EstCollectRow(j) ==
    /\ b_pc = "collect"
    /\ b_jst[j] = "finished"
    /\ b_out[j].ok /\ ~b_out[j].none
    /\ b_jst' = [b_jst EXCEPT ![j] = "collected"]
    /\ b_contacts' = Append(b_contacts, b_out[j].row)
    /\ UNCHANGED <<b_n, b_size, b_workers, b_report, b_i, b_pc, b_submitted,
                   b_threads, b_batch, b_out>>

\* result is None: nothing is written
EstCollectNone(j) ==
    /\ b_pc = "collect"
    /\ b_jst[j] = "finished"
    /\ b_out[j].ok /\ b_out[j].none
    /\ b_jst' = [b_jst EXCEPT ![j] = "collected"]
    /\ UNCHANGED <<b_n, b_size, b_workers, b_report, b_i, b_pc, b_submitted,
                   b_threads, b_batch, b_out, b_contacts>>

\* future.result() re-raises: nothing catches it, the with block is left
\* and executor.shutdown(wait=True) runs
EstCollectRaise(j) ==
    /\ b_pc = "collect"
    /\ b_jst[j] = "finished"
    /\ ~b_out[j].ok
    /\ b_jst' = [b_jst EXCEPT ![j] = "collected"]
    /\ b_pc' = "draining"
    /\ UNCHANGED <<b_n, b_size, b_workers, b_report, b_i, b_submitted,
                   b_threads, b_batch, b_out, b_contacts>>

\* a bug variant: the next batch is begun without waiting for the futures
EstBatchDoneNoWait ==
    /\ b_pc = "collect"
    /\ b_i' = b_i + b_size
    /\ b_threads' = 0
    /\ b_pc' = IF b_i + b_size < b_n THEN "submit" ELSE "done"
    /\ UNCHANGED <<b_n, b_size, b_workers, b_report, b_submitted, b_batch,
                   b_jst, b_out, b_contacts>>

\* every future of the batch has been yielded: the with block ends and the
\* for loop takes the next i, or ends
EstBatchDone ==
    /\ b_pc = "collect"
    /\ \A j \in EstBatchFiles : b_jst[j] = "collected"
    /\ b_i' = b_i + b_size
    /\ b_threads' = 0
    /\ b_pc' = IF b_i + b_size < b_n THEN "submit" ELSE "done"
    /\ UNCHANGED <<b_n, b_size, b_workers, b_report, b_submitted, b_batch,
                   b_jst, b_out, b_contacts>>

\* shutdown(wait=True) after the exception: the queued calls of the batch
\* still run; when all have returned the exception leaves the script
EstDrained ==
    /\ b_pc = "draining"
    /\ \A j \in EstBatchFiles : b_jst[j] \in {"finished", "collected"}
    /\ b_pc' = "crashed"
    /\ UNCHANGED <<b_n, b_size, b_workers, b_report, b_i, b_submitted,
                   b_threads, b_batch, b_jst, b_out, b_contacts>>

EstSpecInit ==
    EstInit /\ BatchIdle /\ EnergIdle /\ RankIdle /\ DerivIdle /\ NameIdle /\ AggIdle /\ SetIdle /\ CompIdle /\ JobIdle
EstNext ==
    /\ UNCHANGED <<batchVars, energVars, rankVars, derivVars, nameVars, aggVars, setVars, compVars, jobVars>>
    /\ \/ EstSubmit
       \/ \E j \in EstJobs : EstStart(j)
       \/ \E j \in EstJobs : EstFinish(j)
       \/ \E j \in EstJobs : EstCollectRow(j)
       \/ \E j \in EstJobs : EstCollectNone(j)
       \/ \E j \in EstJobs : EstCollectRaise(j)
       \/ EstBatchDone
       \/ EstDrained
EstSpec == EstSpecInit /\ [][EstNext]_vars

\* ------------------------------------------------ specification: settings
SettingsScripts == {"pisa", "process_binders"}
\* settings.get('max_workers', 48)
DefaultMaxWorkers == 48

\* int(text) raises ValueError unless the text is an integer
IntRaises(t) == t.k # "num"

\* read_settings of pisa.py: the dictionary it returns, or raised
read_settings(exists, settings) ==
    IF ~exists THEN [raised |-> TRUE, max_workers |-> 0]
    ELSE IF settings.max_workers.k = "absent" THEN [raised |-> TRUE, max_workers |-> 0]
    ELSE IF IntRaises(settings.max_workers) THEN [raised |-> TRUE, max_workers |-> 0]
    ELSE IF settings.batch_size.k # "absent" /\ IntRaises(settings.batch_size)
         THEN [raised |-> TRUE, max_workers |-> 0]
    ELSE [raised |-> FALSE, max_workers |-> settings.max_workers.v]

\* main of process_binders.py, lines 308-321: parse_settings_file raises only
\* for a missing file; max_workers = int(settings.get('max_workers', 48))
binders_settings(exists, settings) ==
    IF ~exists THEN [raised |-> TRUE, max_workers |-> 0]
    ELSE IF settings.max_workers.k = "absent"
         THEN [raised |-> FALSE, max_workers |-> DefaultMaxWorkers]
    ELSE IF IntRaises(settings.max_workers) THEN [raised |-> TRUE, max_workers |-> 0]
    ELSE [raised |-> FALSE, max_workers |-> settings.max_workers.v]

SettingsOf(script, exists, settings) ==
    IF script = "pisa" THEN read_settings(exists, settings)
    ELSE binders_settings(exists, settings)

SettingsTexts == {Absent, Bad, Txt(0), Txt(1), Txt(MaxWorkersBound)}

SetInit ==
    /\ s_script \in SettingsScripts
    /\ s_exists \in BOOLEAN
    /\ s_settings \in [max_workers : SettingsTexts, batch_size : SettingsTexts]
    /\ ~s_exists => s_settings = [max_workers |-> Absent, batch_size |-> Absent]
    /\ s_nfiles \in 1..NumFiles
    /\ s_pc = "start"
    /\ s_workers = 0
    /\ s_submitted = 0

\* the settings are read and accepted
SetConfigured ==
    /\ s_pc = "start"
    /\ ~SettingsOf(s_script, s_exists, s_settings).raised
    /\ s_workers' = SettingsOf(s_script, s_exists, s_settings).max_workers
    /\ s_pc' = "configured"
    /\ UNCHANGED <<s_script, s_exists, s_settings, s_nfiles, s_submitted>>

\* the settings are refused: ValueError leaves main, or sys.exit(1)
SetAbort ==
    /\ s_pc = "start"
    /\ SettingsOf(s_script, s_exists, s_settings).raised
    /\ s_pc' = "aborted"
    /\ UNCHANGED <<s_script, s_exists, s_settings, s_nfiles, s_workers, s_submitted>>

\* ThreadPoolExecutor(max_workers=max_workers)
SetPool ==
    /\ s_pc = "configured"
    /\ s_workers > 0
    /\ s_pc' = "pool"
    /\ UNCHANGED <<s_script, s_exists, s_settings, s_nfiles, s_workers, s_submitted>>

\* ThreadPoolExecutor raises ValueError for max_workers <= 0
SetPoolRaise ==
    /\ s_pc = "configured"
    /\ s_workers <= 0
    /\ s_pc' = "aborted"
    /\ UNCHANGED <<s_script, s_exists, s_settings, s_nfiles, s_workers, s_submitted>>

\* executor.submit for the next file or entry
SetSubmit ==
    /\ s_pc = "pool"
    /\ s_submitted < s_nfiles
    /\ s_submitted' = s_submitted + 1
    /\ UNCHANGED <<s_script, s_exists, s_settings, s_nfiles, s_pc, s_workers>>

SettingsSpecInit ==
    SetInit /\ BatchIdle /\ EnergIdle /\ RankIdle /\ DerivIdle /\ NameIdle /\ AggIdle /\ EstIdle /\ CompIdle /\ JobIdle
SettingsNext ==
    /\ UNCHANGED <<batchVars, energVars, rankVars, derivVars, nameVars, aggVars, estVars, compVars, jobVars>>
    /\ \/ SetConfigured
       \/ SetAbort
       \/ SetPool
       \/ SetPoolRaise
       \/ SetSubmit
SettingsSpec == SettingsSpecInit /\ [][SettingsNext]_vars

\* ------------------------------------------- specification: the estimators
\* min(physical, mem_limited, 32)
AbsoluteCeiling == 32
Min2(a, b) == IF a < b THEN a ELSE b
Max2(a, b) == IF a > b THEN a ELSE b

\* _get_physical_cores_fallback: psutil's count when it is truthy, else
\* max(1, os.cpu_count() or 1)
PhysicalCoresFallback(cores, oscpu) ==
    IF cores # 0 THEN cores ELSE Max2(1, IF oscpu # 0 THEN oscpu ELSE 1)

\* _get_available_mem_gb_linux_fallback, in half GB: 4.0 when unreadable
AvailableMemFallback(avail) == IF avail < 0 THEN 8 ELSE avail

\* estimate_max_workers of pisa_final.py; avail_gb // 1.5 is half GB \div 3
estimate_max_workers(cores, oscpu, avail) ==
    LET physical == PhysicalCoresFallback(cores, oscpu)
        mem_limited == Max2(1, AvailableMemFallback(avail) \div 3)
        est == Min2(Min2(physical, mem_limited), AbsoluteCeiling)
    IN  Val(Max2(1, est))

\* calculate_optimal_settings of compute.py: max_workers = physical_cores,
\* batch_size = int(total_memory_gb * 1024 * 0.8 / 100)
calculate_optimal_settings(cores, total) ==
    [max_workers |-> IF cores = 0 THEN Blank ELSE Val(cores),
     batch_size |-> (total * 4096) \div 1000]

CoreCounts == {0, 1, 2, AbsoluteCeiling, AbsoluteCeiling + 16}
MemHalfGB == {-1, 0, 2, 3, 12, 200}

CompInit ==
    /\ c_script \in {"compute", "pisa_final"}
    /\ c_cores \in CoreCounts
    /\ c_oscpu \in {0, 4}
    /\ c_avail \in MemHalfGB
    /\ c_total \in {12, 200}
    /\ c_pc = "start"
    /\ c_path = "none"
    /\ c_file \in BOOLEAN
    /\ c_script = "pisa_final" => ~c_file
    /\ c_script = "compute" => c_avail >= 0 /\ c_oscpu = 4
    /\ c_workers = Blank
    /\ c_batch = 0
    /\ c_written = FALSE

\* the write probe: dd exits 0 and its output parses
ProbeWriteOk ==
    /\ c_script = "compute" /\ c_pc = "start"
    /\ c_file' = TRUE
    /\ c_pc' = "wrote"
    /\ UNCHANGED <<c_script, c_cores, c_oscpu, c_avail, c_total, c_path,
                   c_workers, c_batch, c_written>>

\* dd exits non-zero: CalledProcessError is printed and re-raised; dd may
\* or may not have created the file
ProbeWriteFail ==
    /\ c_script = "compute" /\ c_pc = "start"
    /\ c_file' \in BOOLEAN
    /\ c_path' = "write_failed"
    /\ c_pc' = "finally"
    /\ UNCHANGED <<c_script, c_cores, c_oscpu, c_avail, c_total,
                   c_workers, c_batch, c_written>>

\* dd exits 0 but parse_dd_output finds no speed: ValueError
ProbeWriteUnparsable ==
    /\ c_script = "compute" /\ c_pc = "start"
    /\ c_file' = TRUE
    /\ c_path' = "write_unparsable"
    /\ c_pc' = "finally"
    /\ UNCHANGED <<c_script, c_cores, c_oscpu, c_avail, c_total,
                   c_workers, c_batch, c_written>>

\* the read probe, with the same three outcomes
ProbeReadOk ==
    /\ c_pc = "wrote"
    /\ c_path' = "success"
    /\ c_pc' = "finally"
    /\ UNCHANGED <<c_script, c_cores, c_oscpu, c_avail, c_total, c_file,
                   c_workers, c_batch, c_written>>

ProbeReadFail ==
    /\ c_pc = "wrote"
    /\ c_path' = "read_failed"
    /\ c_pc' = "finally"
    /\ UNCHANGED <<c_script, c_cores, c_oscpu, c_avail, c_total, c_file,
                   c_workers, c_batch, c_written>>

ProbeReadUnparsable ==
    /\ c_pc = "wrote"
    /\ c_path' = "read_unparsable"
    /\ c_pc' = "finally"
    /\ UNCHANGED <<c_script, c_cores, c_oscpu, c_avail, c_total, c_file,
                   c_workers, c_batch, c_written>>

\* a bug variant: the probe file is removed on the success path only
ProbeFinallyOnSuccess ==
    /\ c_pc = "finally"
    /\ c_file' = IF c_path = "success" THEN FALSE ELSE c_file
    /\ c_pc' = IF c_path = "success" THEN "probed" ELSE "crashed"
    /\ UNCHANGED <<c_script, c_cores, c_oscpu, c_avail, c_total, c_path,
                   c_workers, c_batch, c_written>>

\* finally: if os.path.exists(test_file_path): os.remove(test_file_path);
\* then the function returns, or the exception leaves it and main, which
\* has no handler
ProbeFinally ==
    /\ c_pc = "finally"
    /\ c_file' = FALSE
    /\ c_pc' = IF c_path = "success" THEN "probed" ELSE "crashed"
    /\ UNCHANGED <<c_script, c_cores, c_oscpu, c_avail, c_total, c_path,
                   c_workers, c_batch, c_written>>

\* lines 94-100 of compute.py
Recommend ==
    /\ c_pc = "probed"
    /\ c_workers' = calculate_optimal_settings(c_cores, c_total).max_workers
    /\ c_batch' = calculate_optimal_settings(c_cores, c_total).batch_size
    /\ c_written' = TRUE
    /\ c_pc' = "done"
    /\ UNCHANGED <<c_script, c_cores, c_oscpu, c_avail, c_total, c_path, c_file>>

\* max_workers = estimate_max_workers() in pisa_final.main
EstimateMaxWorkers ==
    /\ c_script = "pisa_final" /\ c_pc = "start"
    /\ c_workers' = estimate_max_workers(c_cores, c_oscpu, c_avail)
    /\ c_pc' = "done"
    /\ UNCHANGED <<c_script, c_cores, c_oscpu, c_avail, c_total, c_path, c_file,
                   c_batch, c_written>>

CompSpecInit ==
    CompInit /\ BatchIdle /\ EnergIdle /\ RankIdle /\ DerivIdle /\ NameIdle /\ AggIdle /\ EstIdle /\ SetIdle /\ JobIdle
CompNext ==
    /\ UNCHANGED <<batchVars, energVars, rankVars, derivVars, nameVars, aggVars, estVars, setVars, jobVars>>
    /\ \/ ProbeWriteOk
       \/ ProbeWriteFail
       \/ ProbeWriteUnparsable
       \/ ProbeReadOk
       \/ ProbeReadFail
       \/ ProbeReadUnparsable
       \/ ProbeFinally
       \/ Recommend
       \/ EstimateMaxWorkers
CompSpec == CompSpecInit /\ [][CompNext]_vars

\* ------------------------------------- specification: the sub-invocations
\* the jobs that run side by side
JobIds == 1..MaxWorkersBound

\* a bug variant: the exit status is not looked at, in any runner
NextStepIgnoringExit(rn, step, exit) ==
    CASE step = "analyse" -> "emit"
      [] step = "emit" -> IF rn = "pisa_final" THEN "check" ELSE "erase"
      [] OTHER -> "parse"

\* the statement reached when the pisa process of a step has exited:
\* subprocess.run(..., check=True) raises on a non-zero exit and the except
\* clause returns the failure row; os.system of parallel_pisa_estimates.py
\* returns the status, which process_file does not look at
NextStep(rn, step, exit) ==
    IF rn # "estimates" /\ exit # 0 THEN "fail"
    ELSE CASE step = "analyse" -> "emit"
           [] step = "emit" -> IF rn = "pisa_final" THEN "check" ELSE "erase"
           [] OTHER -> "parse"

JobInit ==
    /\ j_runner \in {"pisa_final", "pisa", "estimates"}
    /\ j_pc = [k \in JobIds |-> "analyse"]
    /\ j_busy = [k \in JobIds |-> "none"]
    /\ j_calls = [k \in JobIds |-> << >>]
    /\ j_session = [k \in JobIds |-> FALSE]
    /\ j_checked = [k \in JobIds |-> "none"]
    /\ j_parsed = [k \in JobIds |-> FALSE]
    /\ j_out = [k \in JobIds |-> "none"]

\* the job starts the pisa process of the statement it is at and waits
JobBegin(k) ==
    /\ j_pc[k] \in {"analyse", "emit", "erase"}
    /\ j_busy[k] = "none"
    /\ j_busy' = [j_busy EXCEPT ![k] = j_pc[k]]
    /\ UNCHANGED <<j_runner, j_pc, j_calls, j_session, j_checked, j_parsed, j_out>>

\* the pisa process exits: -analyse leaves a session when it exits zero
\* (and may leave one when it does not), -erase removes it when it exits zero
JobEnd(k, exit, left) ==
    /\ j_busy[k] # "none"
    /\ j_busy' = [j_busy EXCEPT ![k] = "none"]
    /\ j_calls' = [j_calls EXCEPT ![k] = Append(@, [step |-> j_busy[k], exit |-> exit])]
    /\ j_session' = [j_session EXCEPT ![k] =
                        CASE j_busy[k] = "analyse" -> (exit = 0 \/ left)
                          [] j_busy[k] = "erase" /\ exit = 0 -> FALSE
                          [] OTHER -> @]
    /\ LET nxt == NextStep(j_runner, j_busy[k], exit)
       IN  /\ j_pc' = [j_pc EXCEPT ![k] = IF nxt = "fail" THEN "done" ELSE nxt]
           /\ j_out' = [j_out EXCEPT ![k] = IF nxt = "fail" THEN "failed" ELSE @]
    /\ UNCHANGED <<j_runner, j_checked, j_parsed>>

\* _assert_chain_present(xml_output, chain_id) of pisa_final.py
JobCheck(k, ok) ==
    /\ j_pc[k] = "check"
    /\ j_checked' = [j_checked EXCEPT ![k] = IF ok THEN "passed" ELSE "failed"]
    /\ j_pc' = [j_pc EXCEPT ![k] = IF ok THEN "erase" ELSE "done"]
    /\ j_out' = [j_out EXCEPT ![k] = IF ok THEN @ ELSE "failed"]
    /\ UNCHANGED <<j_runner, j_busy, j_calls, j_session, j_parsed>>

\* the report is parsed for the metrics: a row, an exception, or (in
\* parallel_pisa_estimates.py, for a report that is not well-formed) None
JobParse(k, out) ==
    /\ j_pc[k] = "parse"
    /\ out = "None" => j_runner = "estimates"
    /\ j_parsed' = [j_parsed EXCEPT ![k] = out # "None"]
    /\ j_out' = [j_out EXCEPT ![k] = out]
    /\ j_pc' = [j_pc EXCEPT ![k] = "done"]
    /\ UNCHANGED <<j_runner, j_busy, j_calls, j_session, j_checked>>

JobSpecInit ==
    JobInit /\ BatchIdle /\ EnergIdle /\ RankIdle /\ DerivIdle /\ NameIdle /\ AggIdle /\ EstIdle /\ SetIdle /\ CompIdle
JobNext ==
    /\ UNCHANGED <<batchVars, energVars, rankVars, derivVars, nameVars, aggVars, estVars, setVars, compVars>>
    /\ \/ \E k \in JobIds : JobBegin(k)
       \/ \E k \in JobIds : \E exit \in {0, 1} : \E left \in BOOLEAN : JobEnd(k, exit, left)
       \/ \E k \in JobIds : \E ok \in BOOLEAN : JobCheck(k, ok)
       \/ \E k \in JobIds : \E out \in {"row", "raised", "None"} : JobParse(k, out)
JobSpec == JobSpecInit /\ [][JobNext]_vars

\* ------------------------------------------------- specification: ranking
\* Scores are held in hundredths.  zsum is the weighted sum of the six
\* z-scored columns of one row (line 102 of rank_pisa_final.py), NaN when
\* a component of the row is NaN; its arithmetic is not modelled, the rows
\* of a table may carry any of the values below.
NaN == Blank
ZVals == {NaN, Val(0), Val(80)}
OverlapTexts == {"Yes", "No", "nan"}

\* --overlap_penalty_z, default 0.80
overlap_penalty_z == 80

\* str.strip().str.lower() on the modelled overlap texts
StripLower(s) ==
    CASE s = "Yes" -> "yes"
      [] s = "No" -> "no"
      [] s = " yes " -> "yes"
      [] s = "TRUE" -> "true"
      [] s = "True" -> "true"
      [] OTHER -> s

\* df["overlap"].astype(str).str.strip().str.lower().isin([...])
OverlapFlag(text) == StripLower(text) \in {"yes", "y", "true", "1"}

\* df.loc[df["overlap_flag"], "score"] -= overlap_penalty_z
FinalScore(row) ==
    IF row.zsum.b THEN NaN
    ELSE IF OverlapFlag(row.overlap) THEN Val(row.zsum.v - overlap_penalty_z)
    ELSE row.zsum

\* a goes strictly before b under sort_values("score", ascending=False):
\* larger score first, NaN last
Before(a, b) == ~a.b /\ (b.b \/ a.v > b.v)

\* perm is an order that df.sort_values("score", ascending=False) can
\* return: the default sort kind is not stable, so rows of equal score
\* may come out in any order
SortsByScore(perm, score) ==
    \A i, k \in DOMAIN perm : i < k => ~Before(score[perm[k]], score[perm[i]])

RankInit ==
    /\ \E n \in 1..MaxRows :
         \E perm \in Permutations(1..n) :
           \E ov \in [1..n -> OverlapTexts] :
             \E z \in [1..n -> ZVals] :
               r_table = [i \in 1..n |->
                            [binder |-> perm[i], overlap |-> ov[i], zsum |-> z[i]]]
    /\ r_pc = "read"
    /\ r_score = <<>>
    /\ r_ranked = <<>>
    /\ r_no_overlap = <<>>

\* lines 81-105: overlap flag, composite score, overlap penalty
RankScore ==
    /\ r_pc = "read"
    /\ r_score' = [i \in 1..Len(r_table) |-> FinalScore(r_table[i])]
    /\ r_pc' = "scored"
    /\ UNCHANGED <<r_table, r_ranked, r_no_overlap>>

\* lines 108-109: ranked_all and its rank column
RankSort ==
    /\ r_pc = "scored"
    /\ \E perm \in Permutations(1..Len(r_table)) :
          /\ SortsByScore(perm, r_score)
          /\ r_ranked' = [i \in 1..Len(r_table) |->
                            [binder |-> r_table[perm[i]].binder,
                             score |-> r_score[perm[i]],
                             overlap_flag |-> OverlapFlag(r_table[perm[i]].overlap),
                             rank |-> i]]
    /\ r_pc' = "ranked"
    /\ UNCHANGED <<r_table, r_score, r_no_overlap>>

\* a bug variant: the filtered rows keep their rank of the full ranking
RankFilterKeepsRank ==
    /\ r_pc = "ranked"
    /\ LET kept == SelectSeq(r_ranked, LAMBDA r : ~r.overlap_flag)
       IN  r_no_overlap' = [i \in 1..Len(kept) |->
                              [binder |-> kept[i].binder, score |-> kept[i].score,
                               rank_no_overlap |-> kept[i].rank]]
    /\ r_pc' = "done"
    /\ UNCHANGED <<r_table, r_score, r_ranked>>

\* lines 111-112: ranked_no_overlap and its rank_no_overlap column
RankFilter ==
    /\ r_pc = "ranked"
    /\ LET kept == SelectSeq(r_ranked, LAMBDA r : ~r.overlap_flag)
       IN  r_no_overlap' = [i \in 1..Len(kept) |->
                              [binder |-> kept[i].binder, score |-> kept[i].score,
                               rank_no_overlap |-> i]]
    /\ r_pc' = "done"
    /\ UNCHANGED <<r_table, r_score, r_ranked>>

\* ------------------------------------- specification: the overlap column
\* cells of the overlap column as contacts.csv holds them; "" is a blank cell
OverlapCells == {"Yes", " yes ", "TRUE", "1", "No", ""}

\* pd.read_csv infers one dtype for the whole column: int64 when every cell
\* is an integer, float64 when every cell is a number or blank, bool when
\* every cell is a boolean word, object otherwise
IsIntCell(c) == c \in {"1", "0"}
IsBoolCell(c) == c \in {"TRUE"}
ColumnDtype(cells) ==
    IF \A i \in DOMAIN cells : IsIntCell(cells[i]) THEN "int64"
    ELSE IF \A i \in DOMAIN cells : IsIntCell(cells[i]) \/ cells[i] = "" THEN "float64"
    ELSE IF \A i \in DOMAIN cells : IsBoolCell(cells[i]) THEN "bool"
    ELSE "object"

\* str() of a float64 value
FloatStr(c) == IF c = "1" THEN "1.0" ELSE "0.0"

\* df["overlap"].astype(str) on the column read_csv returns
AsTypeStr(cells) ==
    LET dt == ColumnDtype(cells)
    IN  [i \in DOMAIN cells |->
            IF cells[i] = "" THEN "nan"
            ELSE IF dt = "float64" THEN FloatStr(cells[i])
            ELSE IF IsBoolCell(cells[i]) /\ (\A k \in DOMAIN cells :
                        IsBoolCell(cells[k]) \/ cells[k] = "") THEN "True"
            ELSE cells[i]]

OverlapInit ==
    /\ \E n \in 1..MaxRows :
         \E cl \in [1..n -> OverlapCells] :
           \E z \in [1..n -> ZVals] :
             r_table = [i \in 1..n |->
                          [binder |-> i, cell |-> cl[i], overlap |-> "", zsum |-> z[i]]]
    /\ r_pc = "csv"
    /\ r_score = <<>>
    /\ r_ranked = <<>>
    /\ r_no_overlap = <<>>

\* line 63 and the astype(str) of line 81
RankRead ==
    /\ r_pc = "csv"
    /\ LET strs == AsTypeStr([i \in 1..Len(r_table) |-> r_table[i].cell])
       IN  r_table' = [i \in 1..Len(r_table) |->
                          [r_table[i] EXCEPT !.overlap = strs[i]]]
    /\ r_pc' = "read"
    /\ UNCHANGED <<r_score, r_ranked, r_no_overlap>>

OverlapSpecInit ==
    OverlapInit /\ BatchIdle /\ EnergIdle /\ DerivIdle /\ NameIdle /\ AggIdle /\ EstIdle /\ SetIdle /\ CompIdle /\ JobIdle
OverlapNext ==
    /\ UNCHANGED <<batchVars, energVars, derivVars, nameVars, aggVars, estVars, setVars, compVars, jobVars>>
    /\ \/ RankRead
       \/ RankScore
OverlapSpec == OverlapSpecInit /\ [][OverlapNext]_vars

\* ------------------------------------ specification: undefined components
\* the numeric cells of a row of contacts.csv that the score is built from
Cells(bsa, area, dg, solv, spec, inter) ==
    [bsa_score |-> bsa, interface_area_A2 |-> area, dg_dissociation |-> dg,
     solvation_energy_gain |-> solv, specificity |-> spec, interactions |-> inter]

\* two rows of jobs that succeeded, the zero/blank row of a failed job, a row
\* with interface area 0, a row with a blank specificity
RowProfiles ==
    { Cells(Val(20), Val(400), Val(-7), Val(-5), Val(3), 3),
      Cells(Val(30), Val(600), Val(-3), Val(-2), Val(2), 5),
      Cells(Val(0), Blank, Blank, Blank, Blank, 0),
      Cells(Val(20), Val(0), Val(-7), Val(-5), Val(3), 3),
      Cells(Val(30), Val(600), Val(-3), Val(-2), Blank, 5) }

\* np.nanstd(s) is 0 or not finite, resp. np.nanmax(s) == np.nanmin(s) or
\* not finite: the column holds at most one distinct number
Degenerate(col) == Cardinality({col[i].v : i \in {k \in DOMAIN col : ~col[k].b}}) <= 1

\* zscore(s) is a number at row i: the zeros of line 38 for a degenerate
\* column, (s - mu) / sd otherwise, which is NaN where s is NaN
ZScoreDefined(col, i) == Degenerate(col) \/ ~col[i].b

ColumnOf(table, name) == [i \in DOMAIN table |-> table[i].cells[name]]

\* minmax(s), scaled by (mx - mn): the zeros of line 46 for a degenerate
\* column (scale 1)
MinMaxScale(col) ==
    IF Degenerate(col) THEN 1
    ELSE LET vs == {col[i].v : i \in {k \in DOMAIN col : ~col[k].b}}
             mn == CHOOSE v \in vs : \A w \in vs : v <= w
             mx == CHOOSE v \in vs : \A w \in vs : v >= w
         IN  mx - mn
MinMaxNum(col) ==
    IF Degenerate(col) THEN [i \in DOMAIN col |-> Val(0)]
    ELSE LET vs == {col[i].v : i \in {k \in DOMAIN col : ~col[k].b}}
             mn == CHOOSE v \in vs : \A w \in vs : v <= w
         IN  [i \in DOMAIN col |-> IF col[i].b THEN NaN ELSE Val(col[i].v - mn)]

\* size_avg = (minmax(bsa_score) + minmax(interface_area_A2)) / 2, scaled
\* by twice the product of the two ranges
SizeAvg(table) ==
    LET b == ColumnOf(table, "bsa_score")
        a == ColumnOf(table, "interface_area_A2")
    IN  [i \in DOMAIN table |->
            IF MinMaxNum(b)[i].b \/ MinMaxNum(a)[i].b THEN NaN
            ELSE Val(MinMaxNum(b)[i].v * MinMaxScale(a)
                        + MinMaxNum(a)[i].v * MinMaxScale(b))]

\* dg_per_100A2 = good_dg / (interface_area_A2 / 100).replace(0, nan), as
\* the pair numerator, denominator
DgPerArea(table) ==
    [i \in DOMAIN table |->
        LET dg == table[i].cells.dg_dissociation
            ar == table[i].cells.interface_area_A2
        IN  IF dg.b \/ ar.b \/ ar.v = 0 THEN [b |-> TRUE, v |-> <<0, 1>>]
            ELSE [b |-> FALSE, v |-> <<-dg.v * 100, ar.v>>]]
\* that column holds at most one distinct quotient
DgPerAreaDegenerate(col) ==
    \A i, k \in DOMAIN col :
        (~col[i].b /\ ~col[k].b) => col[i].v[1] * col[k].v[2] = col[k].v[1] * col[i].v[2]

\* df["score"] of line 102 is a number at row i: every one of the six
\* z-scored components is (interactions is filled with 0 and always is)
CompositeDefined(table, i) ==
    /\ ZScoreDefined(SizeAvg(table), i)
    /\ ZScoreDefined(ColumnOf(table, "dg_dissociation"), i)
    /\ ZScoreDefined(ColumnOf(table, "solvation_energy_gain"), i)
    /\ ZScoreDefined(ColumnOf(table, "specificity"), i)
    /\ DgPerAreaDegenerate(DgPerArea(table)) \/ ~DgPerArea(table)[i].b

NanInit ==
    /\ \E n \in 1..MaxRows :
         \E ov \in [1..n -> OverlapTexts] :
           \E cl \in [1..n -> RowProfiles] :
             r_table = [i \in 1..n |->
                          [binder |-> i, overlap |-> ov[i], zsum |-> NaN,
                           cells |-> cl[i]]]
    /\ r_pc = "cells"
    /\ r_score = <<>>
    /\ r_ranked = <<>>
    /\ r_no_overlap = <<>>

\* lines 84-102: the weighted sum of the z-scored components; where it is
\* a number its value is not computed here, it may be any of ZVals
RankComposite ==
    /\ r_pc = "cells"
    /\ \E z \in [1..Len(r_table) -> ZVals] :
          /\ \A i \in 1..Len(r_table) : z[i] = NaN <=> ~CompositeDefined(r_table, i)
          /\ r_table' = [i \in 1..Len(r_table) |-> [r_table[i] EXCEPT !.zsum = z[i]]]
    /\ r_pc' = "read"
    /\ UNCHANGED <<r_score, r_ranked, r_no_overlap>>

NanSpecInit ==
    NanInit /\ BatchIdle /\ EnergIdle /\ DerivIdle /\ NameIdle /\ AggIdle /\ EstIdle /\ SetIdle /\ CompIdle /\ JobIdle
NanNext ==
    /\ UNCHANGED <<batchVars, energVars, derivVars, nameVars, aggVars, estVars, setVars, compVars, jobVars>>
    /\ \/ RankComposite
       \/ RankScore
       \/ RankSort
       \/ RankFilter
NanSpec == NanSpecInit /\ [][NanNext]_vars

RankSpecInit == RankInit /\ BatchIdle /\ EnergIdle /\ DerivIdle /\ NameIdle /\ AggIdle /\ EstIdle /\ SetIdle /\ CompIdle /\ JobIdle
RankNext ==
    /\ UNCHANGED <<batchVars, energVars, derivVars, nameVars, aggVars, estVars, setVars, compVars, jobVars>>
    /\ \/ RankScore
       \/ RankSort
       \/ RankFilter
RankSpec == RankSpecInit /\ [][RankNext]_vars

\* ======================================================== claims, batch run
Rep(j) == SampleReports[xml[j]]
\* the chains each sample report names
ChainsOf == [r \in ReportIds |-> ChainsPresent(SampleReports[r])]
Ended(j) == jst[j] \in {"finished", "collected"}
FailureKinds == {"nonzero", "malformed", "nochain"}

\* a tuple whose metrics are all zero or blank
IsZeroBlank(t) ==
    IF runner = "pisa_final"
    THEN /\ Len(t) = 13
         /\ t[2] = 0 /\ t[3] = 0 /\ t[4] = 0 /\ t[5] = 0
         /\ t[6] = Blank /\ t[7] = Blank /\ t[8] = Blank /\ t[9] = ""
         /\ t[10] = Blank /\ t[11] = 0 /\ t[12] = Blank /\ t[13] = Blank
    ELSE Len(t) = 4 /\ t[2] = 0 /\ t[3] = 0 /\ t[4] = 0

RowsOf(j) == {i \in 1..Len(results) : results[i][1] = j}
LinesOf(j) == {i \in 1..Len(contacts) : contacts[i].binder = j}

\* C1 -- a job that fails by a non-zero analyzer exit, by a report that is
\* not well-formed, or (pisa_final, the runner that checks it) by a missing
\* chain ends with the same zero/blank row and a logged reason; the step
\* that fails it changes no sibling job and nothing of main; the run is
\* aborted only by a derivation that raised, never by such a failure; and a
\* run that reaches its end with files has written contacts.csv with one
\* line for each failed job.
C1_ZeroRowAndReason ==
    \A j \in Jobs : Ended(j) =>
        /\ outc[j].reason.kind = "nonzero" =>
              outc[j].kind = "failed" /\ IsZeroBlank(outc[j].row)
              /\ outc[j].row[1] = j
        /\ (xml[j] # 0 /\ ~Rep(j).wf) =>
              /\ outc[j].reason.kind \in {"malformed", "nonzero"}
              /\ outc[j].kind \in {"failed", "row"}
              /\ IsZeroBlank(outc[j].row) /\ outc[j].row[1] = j
        /\ (runner = "pisa_final" /\ xml[j] # 0 /\ Rep(j).wf
              /\ ChainId \notin ChainsOf[xml[j]]) =>
              /\ outc[j].reason.kind = "nochain"
              /\ outc[j].kind = "failed"
              /\ IsZeroBlank(outc[j].row) /\ outc[j].row[1] = j

C1_FailingStep ==
    \A j \in Jobs :
        (~Ended(j) /\ jst'[j] = "finished" /\ outc'[j].reason.kind \in FailureKinds)
        => /\ \A i \in Jobs \ {j} :
                jst'[i] = jst[i] /\ outc'[i] = outc[i] /\ xml'[i] = xml[i]
           /\ pc' = pc /\ results' = results /\ exitCode' = exitCode
           /\ threads' = threads /\ submitted' = submitted

C1_AbortOnlyByRaise ==
    (pc \in {"draining", "crashed"} /\ submitted > 0) =>
        \E j \in Jobs : outc[j].kind = "raised" /\ outc[j].derived

C1_StillWritten ==
    (pc = "done" /\ submitted > 0) =>
        /\ written /\ exitCode = 0
        /\ \A j \in 1..nfiles :
              outc[j].reason.kind \in FailureKinds =>
                 \E i \in LinesOf(j) : contacts[i].bsa_score = 0

C1_FailureIsolated ==
    /\ [](C1_ZeroRowAndReason /\ C1_AbortOnlyByRaise /\ C1_StillWritten)
    /\ [][C1_FailingStep]_vars

\* witness C1: contacts.csv written by pisa_final after one job failed on a
\* non-zero exit, one on a malformed report, one on a missing chain
C1_Witness ==
    /\ runner = "pisa_final" /\ written
    /\ \E a, b, c \in 1..nfiles :
          /\ outc[a].reason.kind = "nonzero"
          /\ outc[b].reason.kind = "malformed"
          /\ outc[c].reason.kind = "nochain"

\* C2 -- at every moment the number of process_pdb_file calls that have
\* started and not returned is at most max_workers.
C2_BoundedConcurrency == Running <= max_workers

\* witness C2: the pool is full while another call waits in the queue
C2_Witness ==
    /\ max_workers = 2 /\ Running = max_workers
    /\ \E j \in Jobs : jst[j] = "queued"

\* C3 -- a report with an unparsable seq_num loses only that residue or
\* bond: the job still returns the row derived from the remaining entries.
IsNum(t) == t.k # "bad"
SkipBadEntries(report) ==
    [report EXCEPT !.ifaces =
        [i \in 1..Len(report.ifaces) |->
            [report.ifaces[i] EXCEPT
                !.mols = [m \in 1..Len(report.ifaces[i].mols) |->
                    [report.ifaces[i].mols[m] EXCEPT
                        !.residues = SelectSeq(report.ifaces[i].mols[m].residues,
                                               LAMBDA r : IsNum(r.seq))]],
                !.hb.bonds = SelectSeq(report.ifaces[i].hb.bonds,
                                LAMBDA b : IsNum(b.s1) /\ IsNum(b.s2)),
                !.sb.bonds = SelectSeq(report.ifaces[i].sb.bonds,
                                LAMBDA b : IsNum(b.s1) /\ IsNum(b.s2))]]]

HasBadSeq(report) == report.wf /\ SkipBadEntries(report) # report

C3_OnlyEntrySkipped ==
    \A j \in Jobs :
        (Ended(j) /\ outc[j].derived /\ HasBadSeq(Rep(j))) =>
            /\ outc[j].kind = "row"
            /\ outc[j].row =
                 (IF runner = "pisa_final"
                  THEN DeriveFinal(SkipBadEntries(Rep(j)), j, ChainId, ResidueCounter)
                  ELSE DerivePisa(SkipBadEntries(Rep(j)), j, ChainId, ResidueCounter)).row

\* C4 -- when the batch has ended, every enumerated file has exactly one
\* outcome: one row in the result list, or one recorded failure.
Recorded(j) == IF outc[j].reason.kind = "exception" THEN 1 ELSE 0
C4_ExactlyOneOutcome ==
    (pc \in {"done", "crashed"} /\ submitted > 0) =>
        \A j \in 1..nfiles : Cardinality(RowsOf(j)) + Recorded(j) = 1

\* C5 (as stated) -- after a batch in which every job either succeeded or
\* failed on a non-zero analyzer exit, contacts.csv has one line per
\* successful job and none for a failed job.
OnlyExitFailures ==
    \A j \in 1..nfiles :
        \/ outc[j].kind = "row" /\ outc[j].reason.kind = "none"
        \/ outc[j].kind = "failed" /\ outc[j].reason.kind = "nonzero"
Succeeded == {j \in 1..nfiles : outc[j].kind = "row" /\ outc[j].reason.kind = "none"}
ExitFailed == {j \in 1..nfiles : outc[j].kind = "failed" /\ outc[j].reason.kind = "nonzero"}

C5_NoRowForFailedJob ==
    (written /\ OnlyExitFailures) =>
        /\ Len(contacts) = Cardinality(Succeeded)
        /\ \A j \in ExitFailed : LinesOf(j) = {}

\* C5 (amended) -- after such a batch contacts.csv has exactly one line per
\* job: the metrics of a successful job, the zero/blank row of a failed
\* one; every failed job has its reason logged; the exit code is 0.
C5_OneRowPerJob ==
    (written /\ OnlyExitFailures) =>
        /\ Len(contacts) = nfiles
        /\ \A j \in 1..nfiles : Cardinality(LinesOf(j)) = 1
        /\ \A j \in Succeeded : \A i \in RowsOf(j) : results[i] = Derive(j, xml[j]).row
        /\ \A j \in ExitFailed : \A i \in RowsOf(j) : IsZeroBlank(results[i])
        /\ \A j \in ExitFailed : outc[j].reason.step \in {"analyse", "emit", "erase"}
        /\ exitCode = 0

\* witness C5: three files, one failed analyzer invocation, three lines
C5_Witness ==
    /\ written /\ OnlyExitFailures /\ nfiles = 3
    /\ Cardinality(ExitFailed) = 1 /\ Cardinality(Succeeded) = 2
    /\ Len(contacts) = 3

\* C6 (as stated) -- the process exits non-zero exactly when a
\* configuration error occurred or no structure was successfully processed.
ConfigFailed == pc = "crashed" /\ submitted = 0
LacksChain(j) == xml[j] # 0 /\ Rep(j).wf /\ ChainId \notin ChainsOf[xml[j]]
C7_MissingChainFailsFast ==
    runner = "pisa_final" =>
        \A j \in Jobs :
            /\ LacksChain(j) =>
                  /\ jst[j] \in {"finished", "collected"}
                  /\ Ended(j) =>
                        /\ outc[j].kind = "failed" /\ ~outc[j].derived
                        /\ outc[j].reason.kind = "nochain"
                        /\ outc[j].reason.requested = ChainId
                        /\ outc[j].reason.present = ChainsOf[xml[j]]
            /\ (Ended(j) /\ outc[j].kind = "row") =>
                  /\ ~IsZeroBlank(outc[j].row)
                  /\ outc[j].row[5] >= 1

\* witness C7: one job failed on the missing chain, another succeeded with
\* nothing buried, no bond and no energetics
C7_Witness ==
    /\ runner = "pisa_final"
    /\ \E a, b \in Jobs :
          /\ Ended(a) /\ LacksChain(a) /\ outc[a].kind = "failed"
          /\ Ended(b) /\ outc[b].kind = "row"
          /\ outc[b].row[2] = 0 /\ outc[b].row[3] = 0 /\ outc[b].row[4] = 0
          /\ outc[b].row[6] = Blank /\ outc[b].row[11] = 0

\* C8 -- every line of contacts.csv holds under salt_bridges the
\* salt-bridge count and under h_bonds the hydrogen-bond count that the
\* parser computed for that structure.
ParserCounts(j) ==
    IF outc[j].kind = "row"
    THEN (IF runner = "pisa_final"
          THEN parse_xml_residues_and_bonds(Rep(j), ChainId, ResidueCounter)
          ELSE parse_xml(Rep(j), ChainId, ResidueCounter))
    ELSE [ok |-> TRUE, residues |-> <<>>, hb |-> 0, sb |-> 0]

C8_ColumnsMatchHeaders ==
    written =>
        \A i \in 1..Len(contacts) :
            /\ contacts[i].salt_bridges = ParserCounts(contacts[i].binder).sb
            /\ contacts[i].h_bonds = ParserCounts(contacts[i].binder).hb

\* ============================================================ claims, ranking
\* C9 -- in the full ranking the rows are in descending order of final
\* score, and two rows of equal final score are in ascending order of
\* binder.
C9_TieBreakByBinder ==
    r_pc \in {"ranked", "done"} =>
        \A i, k \in 1..Len(r_ranked) :
            (i < k /\ ~r_ranked[i].score.b /\ ~r_ranked[k].score.b) =>
                /\ r_ranked[i].score.v >= r_ranked[k].score.v
                /\ r_ranked[i].score.v = r_ranked[k].score.v =>
                      r_ranked[i].binder < r_ranked[k].binder

\* =========================================== claims, best-interface selection
\* the interfaces that can be selected: the target chain takes part and
\* stab_en is a number
Candidates(ifaces) ==
    {i \in 1..Len(ifaces) :
        ChainId \in IfaceChains(ifaces[i]) /\ ifaces[i].stab_en.k = "num"}

\* the first candidate of minimum stab_en
FirstMinimum(ifaces) ==
    CHOOSE i \in Candidates(ifaces) :
        /\ \A k \in Candidates(ifaces) : ifaces[i].stab_en.v <= ifaces[k].stab_en.v
        /\ \A k \in Candidates(ifaces) :
              k < i => ifaces[k].stab_en.v > ifaces[i].stab_en.v

\* C10 -- the row's dg_dissociation, solvation gain, overlap and the
\* p-value behind specificity all come from one interface: the first, in
\* document order, of minimum stab_en among the interfaces the target chain
\* takes part in.
C10_BestInterface ==
    (e_pc = "done" /\ Candidates(e_report.ifaces) # {}) =>
        LET best == e_report.ifaces[FirstMinimum(e_report.ifaces)]
        IN  /\ e_out.dg = Val(Fmt2(best.stab_en.v))
            /\ e_out.solv = (IF best.int_solv_en.k = "num"
                             THEN Val(Fmt3(best.int_solv_en.v)) ELSE Blank)
            /\ e_out.overlap = Strip(best.overlap)
            /\ e_out.specificity = Specificity(FloatOrNone(best.pvalue))

\* witness C10: stab_en -3.0, -7.5, -7.5 on three interfaces of the target
\* chain, the second and third with different solvation, overlap and
\* p-value; the row carries the values of the second
C10_Witness ==
    /\ e_pc = "done"
    /\ e_report.ifaces = << EnergIface(TRUE, Txt(-30000), 3),
                            EnergIface(TRUE, Txt(-75000), 1),
                            EnergIface(TRUE, Txt(-75000), 2) >>
    /\ e_out.dg = Val(-750) /\ e_out.solv = Val(-5200)
    /\ e_out.overlap = "No" /\ e_out.specificity = Val(3000)

\* ================================================ claims, row derivation
\* the counts of a derived row, by the tuple order of the runner
HBondsOf(rn, row) == IF rn = "pisa_final" THEN row[4] ELSE row[3]
SaltBridgesOf(rn, row) == IF rn = "pisa_final" THEN row[3] ELSE row[4]

\* the endpoints of a bond on the target chain at or above the floor
IsQualifying(c, s, floor) == c = ChainId /\ s.k = "num" /\ s.v >= floor
Endpoints(b, floor) ==
    (IF IsQualifying(b.c1, b.s1, floor) THEN 1 ELSE 0)
  + (IF IsQualifying(b.c2, b.s2, floor) THEN 1 ELSE 0)
EndpointsIn(bonds, floor) ==
    SumSeq([i \in 1..Len(bonds) |-> Endpoints(bonds[i], floor)])
AllNumeric(bonds) ==
    \A i \in 1..Len(bonds) : bonds[i].s1.k = "num" /\ bonds[i].s2.k = "num"

\* C11 -- in pisa_final and pisa the hydrogen-bond count is the number of
\* hydrogen-bond endpoints on the target chain at or above the floor, and
\* the salt-bridge count the number of such salt-bridge endpoints: a bond
\* adds 2 when both endpoints qualify, 1 when one does, 0 when none does,
\* and neither count depends on the bonds of the other kind.
C11_EndpointCounts ==
    LET hbs == AllBonds(d_report, "hb")
        sbs == AllBonds(d_report, "sb")
    IN  (d_pc = "done" /\ d_runner \in {"pisa_final", "pisa"}
            /\ AllNumeric(hbs) /\ AllNumeric(sbs)) =>
           /\ d_out.ok
           /\ HBondsOf(d_runner, d_out.row) = EndpointsIn(hbs, d_floor)
           /\ SaltBridgesOf(d_runner, d_out.row) = EndpointsIn(sbs, d_floor)

\* witness C11: pisa.py has counted 2 for one hydrogen bond with both
\* endpoints on chain A and 1 for one salt bridge with one endpoint on it
C11_Witness ==
    /\ d_pc = "done" /\ d_runner = "pisa"
    /\ AllBonds(d_report, "hb") = << Bond("A", Txt(12), "A", Txt(50)) >>
    /\ AllBonds(d_report, "sb") = << Bond("A", Txt(12), "B", Txt(3)) >>
    /\ d_out.ok /\ d_out.row[3] = 2 /\ d_out.row[4] = 1

\* floor((BSA / ASA * 100) / 10) of a residue with ASA # 0 and BSA >= 0
BarCount(bsa, asa) == (10 * bsa) \div asa
ExpectedScore(report, floor) ==
    LET rts == ResidueTexts(report)
    IN  SumSeq([i \in 1..Len(rts) |->
            IF rts[i].chain = ChainId /\ rts[i].seq.v >= floor /\ rts[i].asa.v # 0
            THEN BarCount(rts[i].bsa.v, rts[i].asa.v) ELSE 0])

\* C12 -- in every batch runner the buried-area score of a report is the
\* sum of floor((BSA/ASA*100)/10) over the residues of the target chain at
\* or above the floor with ASA # 0; a residue with ASA = 0 adds 0 and the
\* derivation raises nothing, whatever its BSA.
C12_ScoreAndZeroAsa ==
    d_pc = "done" =>
        /\ d_out.ok /\ ~d_out.none
        /\ d_out.row[2] = ExpectedScore(d_report, d_floor)

\* an interface no molecule of which carries a non-empty chain_id
IsChainless(interface) == IfaceChains(interface) = {}
WithoutChainless(report) ==
    [report EXCEPT !.ifaces = SelectSeq(report.ifaces, LAMBDA i : ~IsChainless(i))]

C14_InjectiveOutputs ==
    f_pc = "done" =>
        \A a, b \in DOMAIN f_paths : a # b => f_paths[a] \cap f_paths[b] = {}

\* ============================================= claims, aggregation, join
\* the joined rows taken from the futures, by description
JoinedByKey ==
    LET kept == SelectSeq(a_binders, LAMBDA b : b.description \in 1..a_n)
    IN  [i \in 1..Len(kept) |->
            [description |-> kept[i].description,
             sequence |-> kept[i].sequence,
             binder |-> kept[i].description,
             bsa_score |-> a_rows[kept[i].description][2],
             salt_bridges |-> a_rows[kept[i].description][3],
             h_bonds |-> a_rows[kept[i].description][4]]]

\* C15 -- whatever the order in which the jobs complete, contacts.csv holds
\* for each structure exactly one row and it is the row of that structure's
\* job, and the join with binders.csv pairs each description with the row
\* of the same identifier, wherever that row stands in contacts.csv.
C15_OrderIndependent ==
    /\ a_pc \in {"written", "merged"} =>
          \A j \in 1..a_n :
             \E i \in 1..Len(a_contacts) :
                /\ a_contacts[i] = [binder |-> j, bsa_score |-> a_rows[j][2],
                                    salt_bridges |-> a_rows[j][3],
                                    h_bonds |-> a_rows[j][4]]
                /\ \A k \in 1..Len(a_contacts) : a_contacts[k].binder = j => k = i
    /\ a_pc = "merged" => a_merged = JoinedByKey

\* witness C15: the jobs completed in an order other than the order of
\* binders.csv, and the join has paired two rows that stand at different
\* positions in the two tables
C15_Witness ==
    /\ a_pc = "merged" /\ Len(a_merged) = 2
    /\ a_merged[1].description # a_merged[2].description
    /\ a_contacts[1].binder = a_binders[2].description
    /\ a_contacts[1].bsa_score # a_contacts[2].bsa_score

\* ------------------------------------------------------------ C16 .. C18
\* the row process_file returns for file j, when it returns one
EstDerived(j) == DeriveEstimates(EstReports[b_report[j]], j)
EstHasRow(j) == EstDerived(j).ok /\ ~EstDerived(j).none
EstLinesOf(j) == {k \in 1..Len(b_contacts) : b_contacts[k][1] = j}
EstEnded == b_pc \in {"done", "crashed"}

\* C16: when process_files_in_batches has ended, for every batch_size >= 1,
\* every file has been in exactly one batch and its job has run, every line
\* of contacts.csv is the row of its file, written once, and after a normal
\* end the lines are exactly the rows a single batch of all files writes.
C16_BatchingKeepsRows ==
    /\ \A k \in 1..Len(b_contacts) :
          /\ b_contacts[k][1] \in EstJobs
          /\ EstHasRow(b_contacts[k][1])
          /\ b_contacts[k] = EstDerived(b_contacts[k][1]).row
          /\ Cardinality(EstLinesOf(b_contacts[k][1])) = 1
    /\ EstEnded =>
          \A j \in EstJobs :
              /\ b_batch[j] = ((j - 1) \div b_size) + 1
              /\ b_jst[j] \in {"finished", "collected"}
    /\ b_pc = "done" =>
          \A j \in EstJobs : EstHasRow(j) => Cardinality(EstLinesOf(j)) = 1

\* the same statement holds for batch_size >= len(files), a single batch
C16_SingleBatchKeepsRows == (b_pc # "idle" /\ b_size >= b_n) => C16_BatchingKeepsRows

\* and in every run in which no process_file call raises
C16_NoRaiseKeepsRows ==
    (b_pc # "idle" /\ \A j \in EstJobs : EstDerived(j).ok) => C16_BatchingKeepsRows

EstStarted(j) == b_jst[j] \in {"running", "finished", "collected"}

\* C17: batches are processed one at a time: a job of a later batch has
\* started only when every job of every earlier batch has finished and has
\* been collected; at most max_workers jobs run at the same time.
C17_BatchesInTurn ==
    /\ \A j \in EstJobs :
          b_jst[j] # "new" =>
              /\ b_batch[j] = ((j - 1) \div b_size) + 1
              /\ \A i \in EstJobs :
                    ((i - 1) \div b_size) < ((j - 1) \div b_size)
                        => b_jst[i] = "collected"
    /\ EstRunning <= b_workers

\* a worker is free and a file is left, but it waits for the batch to end
C17_Witness ==
    /\ b_n = 3 /\ b_size = 2 /\ b_workers = MaxWorkersBound
    /\ b_jst = <<"collected", "running", "new">>

\* C18: after the batch is cancelled (the collecting loop was left on an
\* error) no call that has not started is started.
C18_NoStartAfterCancel ==
    [][b_pc = "draining" =>
          \A j \in EstJobs : b_jst[j] = "queued" => b_jst'[j] = "queued"]_vars

\* the calls in flight at the cancellation do run to completion
C18_InFlightComplete ==
    b_pc = "crashed" => \A j \in EstJobs : b_jst[j] \notin {"queued", "running"}

\* ------------------------------------------------------------------ C19
InvalidSettings ==
    \/ ~s_exists
    \/ s_settings.max_workers.k # "num"
    \/ s_settings.batch_size.k = "bad"

SettingsFatal ==
    InvalidSettings =>
        /\ s_pc \in {"start", "aborted"}
        /\ s_submitted = 0
        /\ s_workers = 0

\* C19: a settings file that does not exist, has no max_workers key, or has
\* a non-integer max_workers or batch_size aborts the run before any job is
\* submitted, and no default worker count stands in for the missing one.
C19_InvalidSettingsFatal == s_pc # "idle" => SettingsFatal

\* read_settings of pisa.py does what C19 says
C19_PisaSettingsFatal == (s_pc # "idle" /\ s_script = "pisa") => SettingsFatal

\* ------------------------------------------------------------------ C20
\* the rows of the aggregated table whose overlap flag is false
NotOverlapping == {i \in 1..Len(r_table) : ~OverlapFlag(r_table[i].overlap)}
RowOfBinder(b) == CHOOSE i \in 1..Len(r_table) : r_table[i].binder = b

\* C20: the non-overlap ranking holds exactly the rows whose overlap flag is
\* false, each once and with its final score, in descending score order
\* (rows without a score last), and rank_no_overlap counts 1, 2, ..., m.
C20_NoOverlapRanking ==
    r_pc = "done" =>
        /\ Len(r_no_overlap) = Cardinality(NotOverlapping)
        /\ {r_no_overlap[i].binder : i \in 1..Len(r_no_overlap)}
              = {r_table[i].binder : i \in NotOverlapping}
        /\ \A i \in 1..Len(r_no_overlap) :
              /\ r_no_overlap[i].rank_no_overlap = i
              /\ r_no_overlap[i].score
                    = FinalScore(r_table[RowOfBinder(r_no_overlap[i].binder)])
        /\ \A i, k \in 1..Len(r_no_overlap) :
              i < k => ~Before(r_no_overlap[k].score, r_no_overlap[i].score)

\* two rows are kept, and one of them holds another rank in the full ranking
C20_Witness ==
    /\ r_pc = "done"
    /\ Len(r_no_overlap) >= 2
    /\ Len(r_ranked) > Len(r_no_overlap)
    /\ \E i \in 1..Len(r_no_overlap) : \E k \in 1..Len(r_ranked) :
          /\ r_ranked[k].binder = r_no_overlap[i].binder
          /\ r_ranked[k].rank # r_no_overlap[i].rank_no_overlap

\* ------------------------------------------------------------------ C21
\* a cell trimmed and lower-cased, as the statement reads it
TrimLower(c) ==
    CASE c \in {"Yes", " yes "} -> "yes"
      [] c = "TRUE" -> "true"
      [] c = "No" -> "no"
      [] OTHER -> c
SaysOverlap(c) == TrimLower(c) \in {"yes", "y", "true", "1"}

Penalised(row) ==
    IF row.zsum.b THEN NaN
    ELSE IF SaysOverlap(row.cell) THEN Val(row.zsum.v - overlap_penalty_z)
    ELSE row.zsum

\* the table is one of the overlap specification, with its raw cells
HasCells == \A i \in DOMAIN r_table : "cell" \in DOMAIN r_table[i]
CellColumn == [i \in 1..Len(r_table) |-> r_table[i].cell]

\* C21: the final score of a row is its composite score minus the overlap
\* penalty, taken once, exactly when the row's overlap cell, trimmed and
\* lower-cased, is yes, y, true or 1; otherwise it is the composite score.
C21_PenaltyIffOverlap ==
    (r_pc = "scored" /\ HasCells) =>
        \A i \in DOMAIN r_table : r_score[i] = Penalised(r_table[i])

\* the statement holds for every column that read_csv keeps as text
C21_TextColumnPenalty ==
    (r_pc = "scored" /\ HasCells /\ ColumnDtype(CellColumn) # "float64") =>
        \A i \in DOMAIN r_table : r_score[i] = Penalised(r_table[i])

\* ------------------------------------------------------------------ C22
\* the p-value of the best interface is a number > 0 and finite
BestPValueUsable ==
    /\ Candidates(e_report.ifaces) # {}
    /\ LET pv == e_report.ifaces[FirstMinimum(e_report.ifaces)].pvalue
       IN  pv.k = "num" /\ pv.v > 0 /\ pv.v # PInf

\* C22: the specificity field is blank, and not 0, when no best interface
\* exists or its p-value is missing, unparsable, 0, negative or infinite;
\* it holds a number exactly when that p-value is > 0 and finite.
C22_SpecificityBlank ==
    e_pc = "done" =>
        /\ ~BestPValueUsable => e_out.specificity = Blank
        /\ BestPValueUsable => ~e_out.specificity.b

\* the best interface has p-value 0, a later one has 0.001: blank
C22_Witness ==
    /\ e_pc = "done"
    /\ e_report.ifaces = << PValueIface(Txt(-75000), Txt(0)),
                            PValueIface(Txt(-30000), Txt(10)) >>
    /\ e_out.specificity = Blank
    /\ e_out.dg = Val(-750)

\* ------------------------------------------------------------------ C23
\* the rows of contacts.csv whose binder is no description of binders.csv
DroppedRows ==
    {i \in 1..Len(a_contacts) :
        \A k \in 1..Len(a_binders) : a_binders[k].description # a_contacts[i].binder}

\* C23: after the inner join, when metrics rows were dropped for want of a
\* matching identifier, a logged line carries the number of dropped rows.
C23_DroppedRowsLogged ==
    (a_pc = "merged" /\ DroppedRows # {}) =>
        \E i \in 1..Len(a_log) : Cardinality(DroppedRows) \in a_log[i].numbers

\* the join itself drops exactly those rows and keeps every other one
C23_JoinDropsUnmatched ==
    a_pc = "merged" =>
        \A i \in 1..Len(a_contacts) :
            (i \in DroppedRows) <=>
                ~\E k \in 1..Len(a_merged) : a_merged[k].binder = a_contacts[i].binder

\* ------------------------------------------------------------ C24 .. C26
ProbeFailed == c_path \in {"write_failed", "write_unparsable",
                           "read_failed", "read_unparsable"}

\* C24: when the disk probe cannot run or its output cannot be parsed, the
\* estimator does not end with an error.
C24_ProbeFailureDegrades == ProbeFailed => c_pc # "crashed"

\* the run it ends with wrote no recommendation
C24_NoRecommendationAfterFailure ==
    (ProbeFailed /\ c_pc = "crashed") => (c_workers = Blank /\ ~c_written)

\* C25: once get_disk_io_speed has returned or raised, on the success path
\* and on each of the four failure paths, the probe file does not exist.
C25_ProbeFileRemoved ==
    (c_script = "compute" /\ c_pc \in {"probed", "crashed", "done"}) => ~c_file

\* the read probe failed after the write probe had created the file
C25_Witness ==
    /\ c_pc = "crashed"
    /\ c_path = "read_failed"
    /\ ~c_file

\* the smallest of the core count, the memory ceiling and 32, at least 1;
\* an undetectable psutil count falls back to os.cpu_count(), then to 1
ExpectedWorkers ==
    LET cores == IF c_cores # 0 THEN c_cores
                 ELSE IF c_oscpu # 0 THEN c_oscpu ELSE 1
        avail == IF c_avail < 0 THEN 8 ELSE c_avail
    IN  Max2(1, Min2(Min2(cores, avail \div 3), AbsoluteCeiling))

\* C26: the recommended worker count is the smallest of the physical core
\* count, the memory ceiling and 32, and never below 1.
C26_WorkerCount ==
    c_pc = "done" =>
        /\ ~c_workers.b
        /\ c_workers.v = ExpectedWorkers
        /\ c_workers.v >= 1
        /\ c_workers.v <= AbsoluteCeiling

\* estimate_max_workers of pisa_final.py does what C26 says
C26_PisaFinalWorkerCount ==
    (c_pc = "done" /\ c_script = "pisa_final") =>
        (c_workers = Val(ExpectedWorkers) /\ c_workers.v \in 1..AbsoluteCeiling)

\* ------------------------------------------------------------ C27, C28
StepOrder == << "analyse", "emit", "erase" >>
\* the steps of job k that have been started, in the order of their start
StartedSteps(k) ==
    IF j_busy[k] = "none" THEN [i \in 1..Len(j_calls[k]) |-> j_calls[k][i].step]
    ELSE Append([i \in 1..Len(j_calls[k]) |-> j_calls[k][i].step], j_busy[k])
HasCall(k, step, exit) ==
    \E i \in 1..Len(j_calls[k]) : j_calls[k][i] = [step |-> step, exit |-> exit]

InOrderAfterSuccess(k) ==
    /\ \A i \in 1..Len(StartedSteps(k)) : i <= 3 /\ StartedSteps(k)[i] = StepOrder[i]
    /\ \A i \in 2..Len(StartedSteps(k)) : j_calls[k][i - 1].exit = 0
    /\ j_parsed[k] => HasCall(k, "emit", 0)

\* C27: within a job pisa is invoked in the order analyse, emit, erase, each
\* invocation only after the one before it has exited zero, and the report
\* is parsed for the metrics only after the emit step has exited.
C27_StepsInOrder ==
    \A k \in DOMAIN j_pc : InOrderAfterSuccess(k)

\* process_pdb_file of pisa_final.py and of pisa.py does what C27 says
C27_CheckedRunnersInOrder ==
    j_runner # "estimates" => \A k \in DOMAIN j_pc : InOrderAfterSuccess(k)

\* in every runner the order is kept and one job waits for one process
C27_OrderKept ==
    \A k \in DOMAIN j_pc :
        \A i \in 1..Len(StartedSteps(k)) : i <= 3 /\ StartedSteps(k)[i] = StepOrder[i]

\* C28: in process_pdb_file the erase step is started only after analyse and
\* emit have exited zero and (pisa_final) the chain check has passed; a job
\* that failed at analyse, at emit or at the check has its failure outcome,
\* has never started erase, and the session of its structure is still there
\* when the step before had left one.
C28_EraseOnlyAfterSuccess ==
    j_runner # "estimates" =>
        \A k \in DOMAIN j_pc :
            /\ (\E i \in 1..Len(StartedSteps(k)) : StartedSteps(k)[i] = "erase") =>
                  /\ HasCall(k, "analyse", 0) /\ HasCall(k, "emit", 0)
                  /\ j_runner = "pisa_final" => j_checked[k] = "passed"
            /\ (j_out[k] = "failed" /\ ~HasCall(k, "erase", 1)) =>
                  /\ \A i \in 1..Len(StartedSteps(k)) : StartedSteps(k)[i] # "erase"
                  /\ HasCall(k, "analyse", 0) => j_session[k]

\* one job failed the chain check and returned, the other one is at erase
C28_Witness ==
    /\ j_runner = "pisa_final"
    /\ j_out[1] = "failed" /\ j_checked[1] = "failed" /\ j_session[1]
    /\ j_calls[1] = << [step |-> "analyse", exit |-> 0], [step |-> "emit", exit |-> 0] >>
    /\ j_busy[2] = "erase"

\* ------------------------------------------------------------------ C29
NoJobUnfinished == \A j \in 1..nfiles : jst[j] = "collected"
AppendedByCollector ==
    results' # results =>
        \E j \in Jobs :
            /\ pc = "collect"
            /\ jst[j] = "finished" /\ jst'[j] = "collected"
            /\ results' = Append(results, outc[j].row)

\* C29: the report files are moved and contacts.csv is written only after
\* every submitted job has finished and been collected, so no job runs
\* while or after that happens; the list of results grows only by the
\* collecting loop appending the result of a finished job.
C29_WriteAfterAllJobs ==
    /\ [](written => NoJobUnfinished)
    /\ [][written' # written => NoJobUnfinished]_vars
    /\ [][AppendedByCollector]_vars

\* contacts.csv of a full batch whose first result came from another job
\* than the first one submitted
C29_Witness ==
    /\ written /\ nfiles = NumFiles /\ max_workers = MaxWorkersBound
    /\ Len(results) = NumFiles
    /\ results[1][1] # 1

\* ------------------------------------------------------------------ C30
HasProfiles == \A i \in DOMAIN r_table : "cells" \in DOMAIN r_table[i]

\* a component of the row cannot be computed: a blank dg_dissociation,
\* solvation_energy_gain, specificity, bsa_score or interface_area_A2, or
\* an interface area of 0
ComponentUndefined(row) ==
    \/ row.cells.dg_dissociation.b \/ row.cells.solvation_energy_gain.b
    \/ row.cells.specificity.b \/ row.cells.bsa_score.b
    \/ row.cells.interface_area_A2.b \/ row.cells.interface_area_A2 = Val(0)

UndefinedBinders == {r_table[i].binder : i \in {k \in DOMAIN r_table :
                                                   ComponentUndefined(r_table[k])}}

\* in a ranking, every row of UndefinedBinders has no score, has its rank,
\* and stands after every row that has a score
UndefinedLast(ranking) ==
    \A i \in DOMAIN ranking :
        ranking[i].binder \in UndefinedBinders =>
            /\ ranking[i].score = NaN
            /\ \A k \in DOMAIN ranking : ~ranking[k].score.b => k < i

C30_NanRowsLast ==
    (r_pc = "done" /\ HasProfiles) =>
        /\ \A i, k \in DOMAIN r_ranked :
              (r_ranked[i].score = NaN /\ ~r_ranked[k].score.b) => k < i
        /\ \A i, k \in DOMAIN r_no_overlap :
              (r_no_overlap[i].score = NaN /\ ~r_no_overlap[k].score.b) => k < i
        /\ \A i \in DOMAIN r_ranked : r_ranked[i].rank = i
        /\ \A i \in DOMAIN r_no_overlap : r_no_overlap[i].rank_no_overlap = i
        /\ \A i \in DOMAIN r_table :
              r_table[i].overlap = "nan" =>
                  \E k \in DOMAIN r_no_overlap : r_no_overlap[k].binder = r_table[i].binder

\* and the statement holds for tables in which every component column has
\* two distinct numbers
C30_SpreadTables ==
    (r_pc = "done" /\ HasProfiles
       /\ ~Degenerate(ColumnOf(r_table, "dg_dissociation"))
       /\ ~Degenerate(ColumnOf(r_table, "solvation_energy_gain"))
       /\ ~Degenerate(ColumnOf(r_table, "specificity"))
       /\ ~Degenerate(ColumnOf(r_table, "bsa_score"))
       /\ ~Degenerate(ColumnOf(r_table, "interface_area_A2"))
       /\ ~DgPerAreaDegenerate(DgPerArea(r_table)))
    => (UndefinedLast(r_ranked) /\ UndefinedLast(r_no_overlap))

====
